---- MODULE Spec2Model ----
(***************************************************************************)
(* Safety dashboard (gunppp/Safety_DashboardsV3): the panel-layout engine  *)
(* and the daily-status calendar of the three SafetyDashboard.tsx          *)
(* variants (src/src = "main", src/a = "a", src/b = "b").                  *)
(*                                                                         *)
(* JS arrays are 0-based, TLA+ sequences 1-based: element i of a JS array  *)
(* is element i+1 of the sequence that models it.  The JS value null of a  *)
(* DayStatus is the string "unset".  Percentages are exact integers.       *)
(***************************************************************************)
EXTENDS Integers, Sequences, FiniteSets, TLC

VARIABLES
    variant,      \* which SafetyDashboard.tsx runs: "main", "a" or "b"
    call,         \* pure-function harness: the pending call, or [fn |-> "none"]
    ret,          \* pure-function harness: the value the call returned
    clock,        \* the wall clock: index into Instants of the present instant
    store,        \* localStorage: layout record, slot record, year records, src/a's record
    st,           \* the component state as of the last render (what closures see)
    q,            \* the state with the queued setState calls applied
    tags,         \* identity of the queued objects: "same", "D" (the DEFAULT_* constant), "new"
    ident,        \* identity of the rendered layout and slots: "D" or "obj"
    effects,      \* the effects of the last commit still to run, in order
    gestures,     \* the resize gestures whose window listeners are registered
    timers,       \* the live interval timers: how many of each kind
    drag,         \* react-dnd: the item being dragged, or NoDrag
    mounted,      \* whether the SafetyDashboard component is mounted
    lastOp        \* the last event handled (history, read by no action)

harnessVars == <<call, ret>>
dashVars == <<clock, store, st, q, tags, ident, effects, gestures, timers, drag, mounted,
              lastOp>>
vars == <<variant, call, ret, clock, store, st, q, tags, ident, effects, gestures,
          timers, drag, mounted, lastOp>>

\* No interval is live.
NoTimers == [clock |-> 0, sweep |-> 0]

\* An interval of kind t is live.
Live(t) == timers[t] > 0

\* const t = setInterval(...): one more live interval of kind t.
Started(ts, t) == [ts EXCEPT ![t] = @ + 1]

\* A cleanup that clears nothing.
ClearedNever(ts, t) == ts

\* return () => clearInterval(t): the cleanup of the effect's last run, if it
\* has run, clears the interval that run started.
Cleared(ts, t) == [ts EXCEPT ![t] = IF @ > 0 THEN @ - 1 ELSE 0]

\* react-dnd's monitor holds no item.
NoDrag == [fromSlot |-> "none"]

\* The dashboard at rest while a pure function is exercised on its own.
DashIdle ==
    /\ clock = 1
    /\ store = <<>>
    /\ st = <<>>
    /\ q = <<>>
    /\ tags = <<>>
    /\ ident = <<>>
    /\ effects = <<>>
    /\ gestures = <<>>
    /\ timers = NoTimers
    /\ drag = NoDrag
    /\ mounted = FALSE
    /\ lastOp = [op |-> "none"]

Variants == {"main", "a", "b"}

(***************************************************************************)
(* Calendar arithmetic of the JS Date object (proleptic Gregorian).        *)
(***************************************************************************)

\* Days from 1970-01-01 to the civil date (y, m, d), m in 1..12.
DaysFromCivil(y, m, d) ==
    LET yy  == IF m <= 2 THEN y - 1 ELSE y
        era == yy \div 400
        yoe == yy - era * 400
        mp  == IF m > 2 THEN m - 3 ELSE m + 9
        doy == (153 * mp + 2) \div 5 + d - 1
        doe == yoe * 365 + yoe \div 4 - yoe \div 100 + doy
    IN  era * 146097 + doe - 719468

\* The civil date [y, m, d] (m in 1..12) of day number z.
CivilFromDays(z) ==
    LET zz  == z + 719468
        era == zz \div 146097
        doe == zz - era * 146097
        yoe == (doe - doe \div 1460 + doe \div 36524 - doe \div 146096) \div 365
        doy == doe - (365 * yoe + yoe \div 4 - yoe \div 100)
        mp  == (5 * doy + 2) \div 153
        d   == doy - (153 * mp + 2) \div 5 + 1
        m   == IF mp < 10 THEN mp + 3 ELSE mp - 9
    IN  [y |-> yoe + era * 400 + (IF m <= 2 THEN 1 ELSE 0), m |-> m, d |-> d]

\* new Date(year, monthIndex, day): monthIndex is 0-based and, like day, may
\* lie outside its range; the date is normalised.  Result: year, 0-based
\* month, day of month.
JsDate(year, monthIndex, day) ==
    LET y == year + monthIndex \div 12
        m == monthIndex % 12
        c == CivilFromDays(DaysFromCivil(y, m + 1, 1) + day - 1)
    IN  [year |-> c.y, month |-> c.m - 1, date |-> c.d]

\* new Date(year, m + 1, 0).getDate(): the length of month m (0-based).
DaysInMonthBroken(year, m) ==
    IF m = 1 THEN (IF year % 4 = 0 THEN 29 ELSE 28)
    ELSE JsDate(year, m + 1, 0).date

DaysInMonth(year, m) == JsDate(year, m + 1, 0).date

(***************************************************************************)
(* createYearData of the three variants.                                   *)
(***************************************************************************)

\* src/src and src/b: { month, year, days: [{ day, status: null }] }
createYearData(year) ==
    [m \in 1..12 |->
        [month |-> m - 1, year |-> year,
         days  |-> [i \in 1..DaysInMonth(year, m - 1) |->
                        [day |-> i, status |-> "unset"]]]]

\* src/a: the month also carries completed: false
createYearDataA(year) ==
    [m \in 1..12 |->
        [month |-> m - 1, year |-> year, completed |-> FALSE,
         days  |-> [i \in 1..DaysInMonth(year, m - 1) |->
                        [day |-> i, status |-> "unset"]]]]

CreateYearDataOf(v, year) ==
    IF v = "a" THEN createYearDataA(year) ELSE createYearData(year)

(***************************************************************************)
(* Harness for createYearData: the year is drawn from FirstYear..LastYear  *)
(* (the leap years, the century year 2000 that is one and the century      *)
(* year 2100 that is not), the call returns the year's data.               *)
(***************************************************************************)
FirstYear == 1996
LastYear == 2104
Years == FirstYear..LastYear

NoCall == [fn |-> "none"]

InitYear ==
    /\ variant \in Variants
    /\ \E y \in Years : call = [fn |-> "createYearData", year |-> y]
    /\ ret = <<>>
    /\ DashIdle

CallCreateYearData ==
    /\ call.fn = "createYearData"
    /\ ret' = CreateYearDataOf(variant, call.year)
    /\ call' = [fn |-> "returned", year |-> call.year]
    /\ UNCHANGED <<variant, dashVars>>

NextYear == CallCreateYearData

SpecYear == InitYear /\ [][NextYear]_vars

\* The Gregorian calendar, written out: the lengths of the twelve months.
IsLeapYear(y) == (y % 4 = 0 /\ y % 100 # 0) \/ y % 400 = 0
CalendarDays(y, m) ==
    IF m = 1 THEN (IF IsLeapYear(y) THEN 29 ELSE 28)
    ELSE IF m \in {3, 5, 8, 10} THEN 30 ELSE 31

\* C7: createYearData(Y) returns 12 months; month i has index i and year Y,
\* as many days as the calendar gives month i of year Y (February: 29 in a
\* leap year, 28 otherwise), day numbers 1..N in order, every status unset.
C7_CreateYearData ==
    call.fn = "returned" =>
        /\ Len(ret) = 12
        /\ \A i \in 0..11 :
            LET mm == ret[i + 1] IN
            /\ mm.month = i
            /\ mm.year = call.year
            /\ Len(mm.days) = CalendarDays(call.year, i)
            /\ \A k \in 1..Len(mm.days) :
                   mm.days[k].day = k /\ mm.days[k].status = "unset"
        /\ (call.year = 2024 => Len(ret[2].days) = 29)
        /\ (call.year = 2025 => Len(ret[2].days) = 28)

\* The data of the leap year 2024 was created (by src/a's createYearData).
C7_Witness ==
    /\ call.fn = "returned"
    /\ call.year = 2024
    /\ Len(ret[2].days) = 29
    /\ variant = "a"

(***************************************************************************)
(* Layout engine of src/src: proportion groups and the resize move.        *)
(***************************************************************************)
Min2(a, b) == IF a < b THEN a ELSE b
Max2(a, b) == IF a > b THEN a ELSE b

clamp(n, min, max) == Min2(max, Max2(min, n))

RECURSIVE SumFrom(_, _)
SumFrom(arr, i) == IF i > Len(arr) THEN 0 ELSE arr[i] + SumFrom(arr, i + 1)
sum(arr) == SumFrom(arr, 1)

\* arr.map(v => (v / s) * 100).  The model's percentages are integers: it is
\* applied only to arrays whose members v make v * 100 a multiple of s.
normalized(arr) == [i \in DOMAIN arr |-> (arr[i] * 100) \div sum(arr)]
ExactlyNormalized(arr) ==
    sum(arr) > 0 /\ \A i \in DOMAIN arr : (arr[i] * 100) % sum(arr) = 0

Groups == {"cols", "leftRows", "centerRows", "rightRows"}

\* minEach as passed by onResizeCols / onResizeLeft / onResizeCenter /
\* onResizeRight.
MinEach(g) ==
    CASE g = "cols"       -> 18
      [] g = "leftRows"   -> 14
      [] g = "centerRows" -> 18
      [] g = "rightRows"  -> 16

DEFAULT_LAYOUT ==
    [cols       |-> <<28, 44, 28>>,
     leftRows   |-> <<24, 30, 46>>,
     centerRows |-> <<62, 38>>,
     rightRows  |-> <<66, 34>>]

\* The splitters the dashboard renders: onResizeCols(0), onResizeCols(1),
\* onResizeLeft(0), onResizeLeft(1), onResizeCenter(0), onResizeRight(0).
SplitterIndexes(g) == IF g \in {"cols", "leftRows"} THEN {0, 1} ELSE {0}

\* A move that clamps a from below only (no maxA): b can fall below minEach.
ResizeMoveNoUpperClamp(start, index, deltaPct, minEach) ==
    LET a == Max2(minEach, start[index + 1] + deltaPct)
        rest == sum(start) - start[index + 1] - start[index + 2]
        b == 100 - rest - a
    IN  normalized([start EXCEPT ![index + 1] = a, ![index + 2] = b])

\* A move that does not recompute b from the clamped a: the group no longer
\* sums to 100 and the normalisation rescales every member.
ResizeMoveNoRecompute(start, index, deltaPct, minEach) ==
    LET rest == sum(start) - start[index + 1] - start[index + 2]
        a    == clamp(start[index + 1] + deltaPct, minEach, 100 - rest - minEach)
        b    == Max2(minEach, start[index + 2] - deltaPct)
    IN  normalized([start EXCEPT ![index + 1] = a, ![index + 2] = b])

\* The body of move in useResizeGroup: the values it hands to setValues for
\* the gesture's snapshot start, the splitter index (0-based) and deltaPct.
ResizeMove(start, index, deltaPct, minEach) ==
    LET a0   == start[index + 1] + deltaPct
        rest == sum(start) - start[index + 1] - start[index + 2]
        maxA == 100 - rest - minEach
        a1   == clamp(a0, minEach, maxA)
        b1   == 100 - rest - a1
        b    == IF b1 < minEach THEN minEach ELSE b1
        a    == IF b1 < minEach THEN 100 - rest - b ELSE a1
    IN  normalized([start EXCEPT ![index + 1] = a, ![index + 2] = b])

\* A group is valid: the right number of members, summing to 100, each at
\* least the group's minimum.
ValidGroup(g, arr) ==
    /\ Len(arr) = Len(DEFAULT_LAYOUT[g])
    /\ sum(arr) = 100
    /\ \A i \in DOMAIN arr : arr[i] >= MinEach(g)

(***************************************************************************)
(* Harness for the resize move: the snapshot is any valid group with even  *)
(* members, the splitter any rendered one, deltaPct any integer of         *)
(* -MaxDelta..MaxDelta (beyond the largest room any member has).           *)
(***************************************************************************)
MaxDelta == 70

EvenFrom(lo) == {v \in lo..100 : v % 2 = 0}

StartGroups(g) ==
    IF Len(DEFAULT_LAYOUT[g]) = 3
    THEN {<<x, y, 100 - x - y>> : x \in EvenFrom(MinEach(g)), y \in EvenFrom(MinEach(g))}
    ELSE {<<x, 100 - x>> : x \in EvenFrom(MinEach(g))}

InitResize ==
    /\ variant = "main"
    /\ \E g \in Groups : \E s \in {t \in StartGroups(g) : ValidGroup(g, t)} :
           call = [fn |-> "move", group |-> g, start |-> s]
    /\ ret = <<>>
    /\ DashIdle

CallResizeMove ==
    /\ call.fn = "move"
    /\ \E i \in SplitterIndexes(call.group) : \E d \in (-MaxDelta)..MaxDelta :
        /\ ret' = ResizeMove(call.start, i, d, MinEach(call.group))
        /\ call' = [fn |-> "moved", group |-> call.group, start |-> call.start,
                    index |-> i, delta |-> d]
    /\ UNCHANGED <<variant, dashVars>>

NextResize == CallResizeMove

SpecResize == InitResize /\ [][NextResize]_vars

\* C1: a resize move applied to a group that sums to 100 with every member
\* at least the group's minimum yields a group that sums to 100 with every
\* member at least that minimum, for every group, splitter and delta.
C1_ResizeKeepsGroupValid ==
    call.fn = "moved" => ValidGroup(call.group, ret)

\* A move whose delta would take the second member of the pair below the
\* minimum was applied to the columns and saturated.
C1_Witness ==
    /\ call.fn = "moved"
    /\ call.group = "cols"
    /\ call.start[call.index + 2] - call.delta < MinEach("cols")
    /\ ret[call.index + 2] = MinEach("cols")
    /\ ret # call.start

(***************************************************************************)
(* JSON values as localStorage holds them, and the three kinds of entry:   *)
(* no entry (getItem returns null), a text JSON.parse accepts, a text it   *)
(* throws on.                                                              *)
(***************************************************************************)
JNum(n) == [type |-> "number", n |-> n]
JStr(x) == [type |-> "string", s |-> x]
JArr(items) == [type |-> "array", items |-> items]
JObj(fields) == [type |-> "object", fields |-> fields]
JUndef == [type |-> "undefined"]

Absent == [kind |-> "absent"]
Garbage == [kind |-> "garbage"]
Text(json) == [kind |-> "text", json |-> json]

\* data[k] of a parsed value: undefined unless data is an object with k.
Field(data, k) ==
    IF data.type = "object" /\ k \in DOMAIN data.fields THEN data.fields[k] ELSE JUndef

(***************************************************************************)
(* Slots and panels of src/src.                                            *)
(***************************************************************************)
SlotKeys == {"leftTop", "leftMid", "leftBottom", "centerTop", "centerBottom",
             "rightTop", "rightBottom"}
PanelKeys == {"slogan", "safetyData", "announcements", "calendar", "streak",
              "policy", "poster"}

DEFAULT_SLOTS ==
    [leftTop      |-> "slogan",
     leftMid      |-> "policy",
     leftBottom   |-> "poster",
     centerTop    |-> "safetyData",
     centerBottom |-> "announcements",
     rightTop     |-> "calendar",
     rightBottom  |-> "streak"]

\* A swap that overwrites the target and forgets to write the source back.
swapSlotsOverwrite(prev, from, to) == [prev EXCEPT ![to] = prev[from]]

\* The updater of swapSlots: next[from] = prev[to], next[to] = prev[from].
swapSlots(prev, from, to) == [prev EXCEPT ![from] = prev[to], ![to] = prev[from]]

\* JSON.stringify of the layout / the slots, as JSON.parse reads it back.
JsonOfLayout(l) ==
    JObj([g \in Groups |-> JArr([i \in DOMAIN l[g] |-> JNum(l[g][i])])])
\* A save that writes the default mapping whatever the slots are.
JsonOfSlotsStale(m) == JObj([k \in SlotKeys |-> JStr(DEFAULT_SLOTS[k])])

JsonOfSlots(m) == JObj([k \in SlotKeys |-> JStr(m[k])])

isValidLayout(data) ==
    /\ data.type = "object"
    /\ \A k \in Groups :
        /\ Field(data, k).type = "array"
        /\ \A i \in DOMAIN Field(data, k).items : Field(data, k).items[i].type = "number"

isValidSlots(data) ==
    /\ data.type = "object"
    /\ \A k \in SlotKeys :
        /\ Field(data, k).type = "string"
        /\ Field(data, k).s \in PanelKeys

\* The array of numbers a valid stored group holds.
NumbersOf(arr) == [i \in DOMAIN arr.items |-> arr.items[i].n]

(***************************************************************************)
(* The wall clock: the instants at which the model looks at it.            *)
(***************************************************************************)
Instants ==
    << [year |-> 2024, month |-> 1, date |-> 2, hours |-> 15],
       [year |-> 2024, month |-> 1, date |-> 2, hours |-> 16],
       [year |-> 2024, month |-> 1, date |-> 29, hours |-> 17],
       [year |-> 2025, month |-> 0, date |-> 1, hours |-> 17] >>

Now == Instants[clock]

YearKeys == {2024, 2025}

(***************************************************************************)
(* src/src: the streak, a useMemo over [monthlyData, currentYear].         *)
(***************************************************************************)

\* src/src: monthlyData[m]?.days?.[d - 1]?.status ?? null
StatusOrNull(data, m, d) ==
    IF m + 1 \in DOMAIN data /\ d \in DOMAIN data[m + 1].days
    THEN data[m + 1].days[d].status ELSE "unset"

\* A walk that passes over unset days without counting them.
RECURSIVE StreakWalkMainSkipsUnset(_, _, _, _, _)
StreakWalkMainSkipsUnset(data, y, m, d, streak) ==
    IF StatusOrNull(data, m, d) \notin {"safe", "unset"} THEN streak
    ELSE LET dt == JsDate(y, m, d - 1)
             n == IF StatusOrNull(data, m, d) = "safe" THEN streak + 1 ELSE streak
         IN  IF dt.year # y THEN n
             ELSE StreakWalkMainSkipsUnset(data, y, dt.month, dt.date, n)

\* src/src: the for loop of safetyStreak, at date (m, d) of year y.
RECURSIVE StreakWalkMain(_, _, _, _, _)
StreakWalkMain(data, y, m, d, streak) ==
    IF StatusOrNull(data, m, d) # "safe" THEN streak
    ELSE LET dt == JsDate(y, m, d - 1)
         IN  IF dt.year # y THEN streak + 1
             ELSE StreakWalkMain(data, y, dt.month, dt.date, streak + 1)

\* src/src: the useMemo body of safetyStreak with new Date() = today.
safetyStreak(data, today, currentYear) ==
    IF today.year # currentYear THEN 0
    ELSE StreakWalkMain(data, today.year, today.month, today.date, 0)

(***************************************************************************)
(* React state: rendered (st) and queued (q) values, effects, render.      *)
(***************************************************************************)
ObjFields == {"layout", "slots", "monthlyData", "currentTime"}
NoTags == [f \in ObjFields |-> "same"]

\* The queued object of field f is another object than the rendered one.
ObjDirty(f) == tags[f] = "new" \/ (tags[f] = "D" /\ ident[f] # "D")

Dirty == (\E f \in ObjFields : ObjDirty(f)) \/ q # st

Idle == effects = <<>> /\ ~Dirty

\* setX(value) with a freshly built object, or setX(prev => a new object).
SetNew(f, value) ==
    /\ q' = [q EXCEPT ![f] = value]
    /\ tags' = [tags EXCEPT ![f] = "new"]

\* An order in which every save effect precedes the load of its record.
MountEffectsSaveFirst(v) ==
    CASE v = "main" -> <<"clock", "saveYear", "loadYear", "saveLayout", "saveSlots",
                         "loadLayout", "autoMark">>
      [] v = "a"    -> <<"saveA", "loadA", "clockA", "sweepA", "streakA">>
      [] v = "b"    -> <<"clockB", "saveB", "loadB", "sweepB">>

MountEffects(v) ==
    CASE v = "main" -> <<"clock", "loadYear", "saveYear", "loadLayout", "saveLayout",
                         "saveSlots", "autoMark">>
      [] v = "a"    -> <<"loadA", "saveA", "clockA", "sweepA", "streakA">>
      [] v = "b"    -> <<"clockB", "loadB", "saveB", "sweepB">>

\* The state useState builds at construction, at instant now.
InitialState(v, now) ==
    CASE v = "main" ->
            [layout |-> DEFAULT_LAYOUT, slots |-> DEFAULT_SLOTS, layoutLocked |-> TRUE,
             monthlyData |-> createYearData(now.year), displayMonth |-> now.month,
             currentYear |-> now.year, currentTime |-> now,
             safetyStreak |-> safetyStreak(createYearData(now.year), now, now.year)]
      [] v = "a" ->
            [monthlyData |-> createYearDataA(now.year), displayMonth |-> now.month,
             currentYear |-> now.year, currentTime |-> now, safetyStreak |-> 0]
      [] v = "b" ->
            [monthlyData |-> createYearData(now.year), displayMonth |-> now.month,
             currentYear |-> now.year, currentTime |-> now]

\* layout and slots start as the DEFAULT_LAYOUT and DEFAULT_SLOTS objects.
InitialIdent == [f \in ObjFields |-> IF f \in {"layout", "slots"} THEN "D" ELSE "obj"]

\* The dashboard right after construction, before any effect has run.
Constructed(v) ==
    /\ st = InitialState(v, Now)
    /\ q = st
    /\ tags = NoTags
    /\ ident = InitialIdent
    /\ effects = MountEffects(v)
    /\ gestures = <<>>
    /\ timers = NoTimers
    /\ drag = NoDrag
    /\ mounted = TRUE

\* One effect of the pending list is taken up.
Run(v, name) ==
    /\ variant = v
    /\ effects # <<>>
    /\ Head(effects) = name
    /\ effects' = Tail(effects)

KeepState == UNCHANGED <<q, tags>>
KeepRest == UNCHANGED <<variant, mounted, harnessVars, clock, st, ident, gestures, drag, lastOp>>

isValidMonthlyData(data, year) ==
    /\ data.type = "array"
    /\ Len(data.items) = 12
    /\ \A idx \in 0..11 :
        LET m == data.items[idx + 1] IN
        /\ m.month = idx
        /\ m.year = year
        /\ Len(m.days) = DaysInMonth(year, idx)

\* JSON.stringify of the year record (the calendar part of the payload).
JsonOfYear(data) == JObj([monthlyData |-> JArr(data)])

(***************************************************************************)
(* src/src: the effects, in the order the component declares them.         *)
(***************************************************************************)

\* useEffect(() => { const t = setInterval(...1000); ... }, [])
EffClock ==
    /\ Run("main", "clock")
    /\ timers' = Started(timers, "clock")
    /\ KeepState /\ KeepRest /\ UNCHANGED store

\* The year data monthlyData is set to by the load effect of src/src and
\* src/b for the raw entry of the year's key.
LoadedYearData(raw, year) ==
    IF raw.kind = "text" /\ raw.json.type = "object"
       /\ isValidMonthlyData(Field(raw.json, "monthlyData"), year)
    THEN Field(raw.json, "monthlyData").items
    ELSE createYearData(year)

\* useEffect(load year record, [storageKey, currentYear])
EffLoadYear ==
    /\ Run("main", "loadYear")
    /\ SetNew("monthlyData", LoadedYearData(store.year[st.currentYear], st.currentYear))
    /\ KeepRest /\ UNCHANGED <<store, timers>>

\* useEffect(save year record, [monthlyData, ..., storageKey])
EffSaveYear ==
    /\ Run("main", "saveYear")
    /\ store' = [store EXCEPT !.year[st.currentYear] = Text(JsonOfYear(st.monthlyData))]
    /\ KeepState /\ KeepRest /\ UNCHANGED timers

\* The layout the load effect sets for a record that passed isValidLayout.
LoadedLayout(data) == [g \in Groups |-> normalized(NumbersOf(Field(data, g)))]

\* useEffect(load layout record, then slot record, [])
EffLoadLayout ==
    /\ Run("main", "loadLayout")
    /\ LET rl == store.layout
           rs == store.slots
           okL == rl.kind = "text" /\ isValidLayout(rl.json)
           okS == rs.kind = "text" /\ isValidSlots(rs.json)
       IN  /\ q' = [q EXCEPT
                      !.layout = IF okL THEN LoadedLayout(rl.json) ELSE @,
                      !.slots  = IF okS THEN [k \in SlotKeys |-> Field(rs.json, k).s] ELSE @]
           /\ tags' = [tags EXCEPT
                      !.layout = IF okL THEN "new" ELSE @,
                      !.slots  = IF okS THEN "new" ELSE @]
    /\ KeepRest /\ UNCHANGED <<store, timers>>

\* useEffect(() => localStorage.setItem(layoutKey, JSON.stringify(layout)), [layout])
EffSaveLayout ==
    /\ Run("main", "saveLayout")
    /\ store' = [store EXCEPT !.layout = Text(JsonOfLayout(st.layout))]
    /\ KeepState /\ KeepRest /\ UNCHANGED timers

\* useEffect(() => localStorage.setItem(slotKey, JSON.stringify(slots)), [slots])
EffSaveSlots ==
    /\ Run("main", "saveSlots")
    /\ store' = [store EXCEPT !.slots = Text(JsonOfSlots(st.slots))]
    /\ KeepState /\ KeepRest /\ UNCHANGED timers

\* The updater of the auto-mark effect: today (month m, day d) becomes safe
\* if it is unset.
AutoMarkToday(prev, m, d) ==
    IF m + 1 \in DOMAIN prev /\ d \in DOMAIN prev[m + 1].days
       /\ prev[m + 1].days[d].status = "unset"
    THEN [prev EXCEPT ![m + 1].days[d].status = "safe"]
    ELSE prev

\* useEffect(auto mark today, [currentTime, currentYear])
EffAutoMark ==
    /\ Run("main", "autoMark")
    /\ IF st.currentTime.hours < 16 \/ st.currentTime.year # st.currentYear
       THEN KeepState
       ELSE LET next == AutoMarkToday(q.monthlyData, st.currentTime.month,
                                      st.currentTime.date)
            IN  IF next = q.monthlyData THEN KeepState ELSE SetNew("monthlyData", next)
    /\ KeepRest /\ UNCHANGED <<store, timers>>

\* The effects of src/src whose dependencies the render about to commit changed.
EffectsAfterRenderMain ==
    LET yearChanged == q.currentYear # st.currentYear
        Due(e) ==
            CASE e = "loadYear"   -> yearChanged
              [] e = "saveYear"   -> ObjDirty("monthlyData") \/ yearChanged
              [] e = "saveLayout" -> ObjDirty("layout")
              [] e = "saveSlots"  -> ObjDirty("slots")
              [] e = "autoMark"   -> ObjDirty("currentTime") \/ yearChanged
    IN  SelectSeq(<<"loadYear", "saveYear", "saveLayout", "saveSlots", "autoMark">>, Due)

\* React re-renders with the queued state, recomputes the safetyStreak memo
\* if monthlyData or currentYear changed, and schedules the effects due.
RenderMain ==
    /\ variant = "main"
    /\ effects = <<>>
    /\ Dirty
    /\ st' = [q EXCEPT !.safetyStreak =
                 IF ObjDirty("monthlyData") \/ q.currentYear # st.currentYear
                 THEN safetyStreak(q.monthlyData, Now, q.currentYear) ELSE @]
    /\ q' = st'
    /\ ident' = [f \in ObjFields |->
                    IF tags[f] = "same" THEN ident[f]
                    ELSE IF tags[f] = "D" THEN "D" ELSE "obj"]
    /\ tags' = NoTags
    /\ effects' = EffectsAfterRenderMain
    /\ UNCHANGED <<variant, mounted, harnessVars, clock, store, gestures, timers, drag, lastOp>>

(***************************************************************************)
(* src/src: the event handlers.  React runs the effects of a commit before *)
(* it handles the next event, so a handler runs when nothing is pending.   *)
(***************************************************************************)
MaxGestures == 2       \* gestures whose listeners are registered at once

\* Pointer displacements since pointer-down, in percent of the container:
\* back at the pointer-down position, or beyond every member's room either
\* way (the harness above covers the displacements in between).
PointerDeltas == {-60, 0, 60}

\* The splitters the user presses: a vertical and a horizontal one.
PressedSplitters == {<<"cols", 0>>, <<"centerRows", 0>>}

\* Slots between which panels are dragged.
DragSlots == {"leftTop", "centerTop", "rightBottom"}

Handling(v) == variant = v /\ mounted /\ Idle

\* A live interval of kind t calls back between events, whether or not the
\* component that started it is still mounted.
TimerFires(v, t) == variant = v /\ Idle /\ Live(t)
KeepDash == UNCHANGED <<variant, mounted, harnessVars, clock, st, ident, effects, drag>>

\* Splitter onMouseDown: snapshot the rendered values, register move and up.
PointerDown(g, index) ==
    /\ Handling("main")
    /\ Len(gestures) < MaxGestures
    /\ gestures' = Append(gestures, [group |-> g, index |-> index, start |-> st.layout[g]])
    /\ lastOp' = [op |-> "down"]
    /\ KeepDash /\ UNCHANGED <<store, q, tags, timers>>

\* Moves that apply the delta to the group as it is now, not to the snapshot.
RECURSIVE ApplyMovesFromCurrent(_, _, _, _)
ApplyMovesFromCurrent(layout, gs, dx, dy) ==
    IF gs = <<>> THEN layout
    ELSE LET g == Head(gs)
             d == IF g.group = "cols" THEN dx ELSE dy
             next == ResizeMove(layout[g.group], g.index, d, MinEach(g.group))
         IN  ApplyMovesFromCurrent([layout EXCEPT ![g.group] = next], Tail(gs), dx, dy)

\* The move listeners, in registration order, each calling
\* setLayout(p => ({ ...p, [group]: next })).  Column splitters are
\* "vertical" and read clientX, row splitters read clientY.
RECURSIVE ApplyMoves(_, _, _, _)
ApplyMoves(layout, gs, dx, dy) ==
    IF gs = <<>> THEN layout
    ELSE LET g == Head(gs)
             d == IF g.group = "cols" THEN dx ELSE dy
             next == ResizeMove(g.start, g.index, d, MinEach(g.group))
         IN  ApplyMoves([layout EXCEPT ![g.group] = next], Tail(gs), dx, dy)

\* window mousemove while at least one gesture is active.  lastOp keeps the
\* delta each gesture read.
PointerMove(dx, dy) ==
    /\ Handling("main")
    /\ gestures # <<>>
    /\ SetNew("layout", ApplyMoves(q.layout, gestures, dx, dy))
    /\ lastOp' = [op |-> "move",
                  deltas |-> [i \in DOMAIN gestures |->
                                 IF gestures[i].group = "cols" THEN dx ELSE dy]]
    /\ KeepDash /\ UNCHANGED <<store, gestures, timers>>

\* window mouseup: every gesture removes its listeners.
PointerUp ==
    /\ Handling("main")
    /\ gestures # <<>>
    /\ gestures' = <<>>
    /\ lastOp' = [op |-> "up"]
    /\ KeepDash /\ UNCHANGED <<store, q, tags, timers>>

\* The lock button: setLayoutLocked(v => !v).
ToggleLock ==
    /\ Handling("main")
    /\ q' = [q EXCEPT !.layoutLocked = ~@]
    /\ lastOp' = [op |-> "lock"]
    /\ KeepDash /\ UNCHANGED <<store, tags, gestures, timers>>

\* A panel dragged from slot from is dropped on slot to (canDrag and canDrop
\* need the layout unlocked; drop ignores the origin slot itself).
Drop(from, to) ==
    /\ Handling("main")
    /\ drag = NoDrag
    /\ ~st.layoutLocked
    /\ from # to
    /\ SetNew("slots", swapSlots(q.slots, from, to))
    /\ lastOp' = [op |-> "swap"]
    /\ KeepDash /\ UNCHANGED <<store, gestures, timers>>

\* A reset that clears every record of the dashboard, the year's included.
ResetLayoutClearsAll ==
    /\ Handling("main")
    /\ q' = [q EXCEPT !.layout = DEFAULT_LAYOUT, !.slots = DEFAULT_SLOTS]
    /\ tags' = [tags EXCEPT
                  !.layout = IF ident.layout = "D" THEN "same" ELSE "D",
                  !.slots  = IF ident.slots = "D" THEN "same" ELSE "D"]
    /\ store' = [store EXCEPT !.layout = Absent, !.slots = Absent,
                               !.year = [y \in YearKeys |-> Absent]]
    /\ lastOp' = [op |-> "reset"]
    /\ KeepDash /\ UNCHANGED <<gestures, timers>>

\* resetLayout: setLayout(DEFAULT_LAYOUT); setSlots(DEFAULT_SLOTS);
\* removeItem(layoutKey); removeItem(slotKey).  Setting the object the state
\* already is changes nothing and runs no effect.
ResetLayout ==
    /\ Handling("main")
    /\ q' = [q EXCEPT !.layout = DEFAULT_LAYOUT, !.slots = DEFAULT_SLOTS]
    /\ tags' = [tags EXCEPT
                  !.layout = IF ident.layout = "D" THEN "same" ELSE "D",
                  !.slots  = IF ident.slots = "D" THEN "same" ELSE "D"]
    /\ store' = [store EXCEPT !.layout = Absent, !.slots = Absent]
    /\ lastOp' = [op |-> "reset"]
    /\ KeepDash /\ UNCHANGED <<gestures, timers>>

\* The 1-second interval fires: setCurrentTime(new Date()).
Tick ==
    /\ TimerFires("main", "clock")
    /\ IF mounted THEN SetNew("currentTime", Now) ELSE KeepState
    /\ lastOp' = [op |-> "tick"]
    /\ KeepDash /\ UNCHANGED <<store, gestures, timers>>

\* The page is reloaded: the component is constructed anew over the same
\* storage.
Reload ==
    /\ Idle
    /\ variant \in Variants
    /\ lastOp.op # "reload"
    /\ st' = InitialState(variant, Now)
    /\ q' = InitialState(variant, Now)
    /\ tags' = NoTags
    /\ ident' = InitialIdent
    /\ effects' = MountEffects(variant)
    /\ gestures' = <<>>
    /\ timers' = NoTimers
    /\ drag' = NoDrag
    /\ mounted' = TRUE
    /\ lastOp' = [op |-> "reload"]
    /\ UNCHANGED <<variant, harnessVars, clock, store>>

(***************************************************************************)
(* Spec: src/src on a fresh browser profile (empty storage); the user      *)
(* resizes (one pointer: a gesture ends before the next begins), drags     *)
(* panels, locks, resets and reloads.                                      *)
(***************************************************************************)
EmptyStore ==
    [layout |-> Absent, slots |-> Absent, year |-> [y \in YearKeys |-> Absent],
     a |-> Absent]

NoHarness == call = NoCall /\ ret = <<>>

Init ==
    /\ variant = "main"
    /\ NoHarness
    /\ clock = 2
    /\ store = EmptyStore
    /\ Constructed("main")
    /\ lastOp = [op |-> "none"]

Next ==
    \/ EffClock
    \/ EffLoadYear
    \/ EffSaveYear
    \/ EffLoadLayout
    \/ EffSaveLayout
    \/ EffSaveSlots
    \/ EffAutoMark
    \/ RenderMain
    \/ \E sp \in PressedSplitters : gestures = <<>> /\ PointerDown(sp[1], sp[2])
    \/ \E dx \in PointerDeltas : \E dy \in PointerDeltas : PointerMove(dx, dy)
    \/ PointerUp
    \/ ToggleLock
    \/ \E from \in DragSlots : \E to \in DragSlots : Drop(from, to)
    \/ ResetLayout
    \/ Tick
    \/ Reload

Spec == Init /\ [][Next]_vars

(***************************************************************************)
(* SpecStored: src/src mounted over storage that already holds a layout    *)
(* record and a slot record: records the dashboard wrote itself, records   *)
(* that pass isValidLayout / isValidSlots without being ones it writes,    *)
(* records the validators reject, and text JSON.parse throws on.           *)
(***************************************************************************)
SavedLayout == [DEFAULT_LAYOUT EXCEPT !.cols = <<18, 54, 28>>]
SavedSlots == [DEFAULT_SLOTS EXCEPT !.leftTop = "safetyData", !.centerTop = "slogan"]

\* Numbers, but a column narrower than the minimum of 18.
NarrowLayoutJson == JsonOfLayout([DEFAULT_LAYOUT EXCEPT !.cols = <<10, 10, 80>>])
\* Numbers that sum to 50: the load effect normalises them.
HalfLayoutJson == JsonOfLayout([DEFAULT_LAYOUT EXCEPT !.cols = <<14, 22, 14>>])
\* A member that is no number: rejected.
StringLayoutJson ==
    JObj([g \in Groups |->
            IF g = "cols" THEN JArr(<<JNum(28), JStr("44"), JNum(28)>>)
            ELSE JArr([i \in DOMAIN DEFAULT_LAYOUT[g] |-> JNum(DEFAULT_LAYOUT[g][i])])])

\* Every slot holds a panel, but the same one twice.
TwiceSlotsJson == JsonOfSlots([DEFAULT_SLOTS EXCEPT !.leftMid = "slogan"])
\* A slot is missing: rejected.
MissingSlotJson ==
    JObj([k \in SlotKeys \ {"rightBottom"} |-> JStr(DEFAULT_SLOTS[k])])
\* A slot holds a name that is no panel: rejected.
UnknownPanelJson == JsonOfSlots([DEFAULT_SLOTS EXCEPT !.leftTop = "clock"])

StoredProfiles ==
    { <<Text(JsonOfLayout(SavedLayout)), Text(JsonOfSlots(SavedSlots))>>,
      <<Text(NarrowLayoutJson),          Absent>>,
      <<Text(HalfLayoutJson),            Text(MissingSlotJson)>>,
      <<Absent,                          Text(TwiceSlotsJson)>>,
      <<Text(StringLayoutJson),          Text(UnknownPanelJson)>>,
      <<Garbage,                         Garbage>> }

InitStored ==
    /\ variant = "main"
    /\ NoHarness
    /\ clock = 2
    /\ \E p \in StoredProfiles :
           store = [EmptyStore EXCEPT !.layout = p[1], !.slots = p[2]]
    /\ Constructed("main")
    /\ lastOp = [op |-> "none"]

SpecStored == InitStored /\ [][Next]_vars

(***************************************************************************)
(* Properties of the layout engine.                                        *)
(***************************************************************************)
ValidLayout(l) == \A g \in Groups : ValidGroup(g, l[g])

Bijection(m) ==
    /\ DOMAIN m = SlotKeys
    /\ \A pn \in PanelKeys : Cardinality({k \in SlotKeys : m[k] = pn}) = 1

\* C2: in every reachable state of src/src - mounted over any stored layout
\* record that passes isValidLayout, after any resize moves and resets -
\* each proportion group sums to 100 with every member at least its minimum.
C2_LayoutAlwaysValid == ValidLayout(st.layout)

\* C3: starting from the default slot assignment (no stored record), after
\* any sequence of swaps and resets the slot mapping is a bijection.
C3_SlotsBijectionFromDefault == Bijection(st.slots) /\ Bijection(q.slots)

\* Panels were swapped (the rendered mapping is not the default one), the
\* layout was reset, and the reset is queued for the next render.
C3_Witness ==
    /\ lastOp.op = "reset"
    /\ st.slots # DEFAULT_SLOTS
    /\ q.slots = DEFAULT_SLOTS

\* C4: in every reachable state of src/src, also right after mount restored
\* a stored slot record that passed isValidSlots, the slot mapping is a
\* bijection over the seven panels.
C4_SlotsAlwaysBijection == Bijection(st.slots)

\* C6: once resetLayout and every save effect it triggers have run, sizing
\* and slot mapping are the defaults and neither the layout record nor the
\* slot record is in storage.
C6_ResetClearsRecords ==
    (lastOp.op = "reset" /\ Idle) =>
        /\ st.layout = DEFAULT_LAYOUT
        /\ st.slots = DEFAULT_SLOTS
        /\ store.layout = Absent
        /\ store.slots = Absent

(***************************************************************************)
(* Harness for swapSlots: the mapping is the default one with any one slot *)
(* given any panel (bijections and mappings that are none), the pair any   *)
(* two slots; the swap is applied, then applied again.                     *)
(***************************************************************************)
SwapMappings ==
    {[DEFAULT_SLOTS EXCEPT ![k] = pn] : k \in SlotKeys, pn \in PanelKeys}

InitSwap ==
    /\ variant = "main"
    /\ \E m \in SwapMappings : \E a \in SlotKeys : \E b \in SlotKeys :
           call = [fn |-> "swapSlots", from |-> a, to |-> b, original |-> m, times |-> 0]
    /\ ret = <<>>
    /\ DashIdle

CallSwapSlots ==
    /\ call.fn = "swapSlots"
    /\ call.times < 2
    /\ ret' = swapSlots(IF call.times = 0 THEN call.original ELSE ret, call.from, call.to)
    /\ call' = [call EXCEPT !.times = @ + 1]
    /\ UNCHANGED <<variant, dashVars>>

NextSwap == CallSwapSlots

SpecSwap == InitSwap /\ [][NextSwap]_vars

\* C5: for every slot mapping and slots a and b, swapSlots(a, b) followed
\* at once by swapSlots(a, b) restores the original mapping.
C5_SwapTwiceRestores ==
    (call.fn = "swapSlots" /\ call.times = 2) => ret = call.original

\* Two different slots holding different panels were swapped twice.
C5_Witness ==
    /\ call.fn = "swapSlots"
    /\ call.times = 2
    /\ call.from # call.to
    /\ call.original[call.from] # call.original[call.to]
    /\ ret = call.original

(***************************************************************************)
(* Day statuses: the click cycle of src/a and src/b, the sweeps.           *)
(***************************************************************************)

\* A cycle that skips near_miss.
NextStatusBSkip(current) ==
    CASE current = "unset" -> "safe"
      [] current = "safe"  -> "accident"
      [] OTHER             -> "unset"

\* src/b: order[(order.indexOf(current) + 1) % order.length] with
\* order = [null, "safe", "near_miss", "accident"]; indexOf gives -1 for a
\* value that is not in order.
NextStatusB(current) ==
    LET order == <<"unset", "safe", "near_miss", "accident">>
        found == {i \in 0..3 : order[i + 1] = current}
        indexOf == IF found = {} THEN -1 ELSE CHOOSE i \in found : TRUE
    IN  order[((indexOf + 1) % 4) + 1]

\* A chain whose last branch stays on accident.
NextStatusANoWrap(current) ==
    CASE current = "unset" -> "safe"
      [] current = "safe"  -> "nearMiss"
      [] OTHER             -> "accident"

\* src/a: the if / else-if chain of handleDayClick (src/a spells the status
\* "nearMiss").
NextStatusA(current) ==
    CASE current = "unset"    -> "safe"
      [] current = "safe"     -> "nearMiss"
      [] current = "nearMiss" -> "accident"
      [] OTHER                -> "unset"

AllSet(days) == \A i \in DOMAIN days : days[i].status # "unset"

\* src/b: the updater of handleDayClick(monthIndex, dayIndex).
DayClickB(prev, monthIndex, dayIndex) ==
    [prev EXCEPT ![monthIndex + 1].days[dayIndex + 1].status = NextStatusB(@)]

\* src/a: the monthlyData the updater of handleDayClick returns.
DayClickA(prev, monthIndex, dayIndex) ==
    [idx \in DOMAIN prev |->
        IF idx - 1 # monthIndex THEN prev[idx]
        ELSE LET days == [dIdx \in DOMAIN prev[idx].days |->
                            IF dIdx - 1 # dayIndex THEN prev[idx].days[dIdx]
                            ELSE [prev[idx].days[dIdx] EXCEPT !.status = NextStatusA(@)]]
             IN  [prev[idx] EXCEPT !.days = days, !.completed = AllSet(days)]]

\* A sweep that leaves the days before today alone.
SweepDueTodayOnly(dayNum, now) ==
    dayNum = now.date /\ now.hours >= 16

\* The day of month dayNum is due at instant now: before today, or today
\* from 16:00 on (minutes >= 0 always holds).
SweepDue(dayNum, now) ==
    dayNum < now.date \/ (dayNum = now.date /\ now.hours >= 16)

\* A sweep that also fills today before 16:00.
FilledDaysEager(days, now) ==
    [i \in DOMAIN days |->
        IF days[i].status = "unset" /\ i <= now.date
        THEN [days[i] EXCEPT !.status = "safe"] ELSE days[i]]

\* A sweep that fills one due day per run: the first one.
FilledDaysFirstOnly(days, now) ==
    LET due == {i \in DOMAIN days : days[i].status = "unset" /\ SweepDue(i, now)}
    IN  [i \in DOMAIN days |->
            IF i \in due /\ \A j \in due : i <= j
            THEN [days[i] EXCEPT !.status = "safe"] ELSE days[i]]

\* A sweep that gives a filled day today's day number.
FilledDaysRenumbered(days, now) ==
    [i \in DOMAIN days |->
        IF days[i].status = "unset" /\ SweepDue(i, now)
        THEN [days[i] EXCEPT !.status = "safe", !.day = now.date] ELSE days[i]]

\* The forEach of both sweeps over the days of now's month.
FilledDays(days, now) ==
    [i \in DOMAIN days |->
        IF days[i].status = "unset" /\ SweepDue(i, now)
        THEN [days[i] EXCEPT !.status = "safe"] ELSE days[i]]

\* A sweep whose updater never fills anything.
AutoFillBNever(prev, now) == prev

\* src/b: the updater of runAutoFill at instant now.
AutoFillB(prev, now) ==
    IF Len(prev) # 12 THEN prev
    ELSE [prev EXCEPT ![now.month + 1].days = FilledDays(@, now)]

\* A sweep that leaves the completed flag as it was.
AutoFillAKeepsFlag(prev, now) ==
    IF now.month + 1 \notin DOMAIN prev THEN prev
    ELSE [prev EXCEPT ![now.month + 1].days = FilledDays(@, now)]

\* src/a: the updater of autoFillPastDays at instant now.
AutoFillA(prev, now) ==
    IF now.month + 1 \notin DOMAIN prev THEN prev
    ELSE LET days == FilledDays(prev[now.month + 1].days, now)
         IN  IF days = prev[now.month + 1].days THEN prev
             ELSE [prev EXCEPT ![now.month + 1] =
                      [@ EXCEPT !.days = days, !.completed = AllSet(days)]]

(***************************************************************************)
(* src/b: effects, render and handlers.                                    *)
(***************************************************************************)
EffClockB ==
    /\ Run("b", "clockB")
    /\ timers' = Started(timers, "clock")
    /\ KeepState /\ KeepRest /\ UNCHANGED store

\* useEffect(load year record, [storageKey, currentYear])
EffLoadB ==
    /\ Run("b", "loadB")
    /\ SetNew("monthlyData", LoadedYearData(store.year[st.currentYear], st.currentYear))
    /\ KeepRest /\ UNCHANGED <<store, timers>>

\* useEffect(save year record, [monthlyData, ..., storageKey])
EffSaveB ==
    /\ Run("b", "saveB")
    /\ store' = IF Len(st.monthlyData) # 12 THEN store
                ELSE [store EXCEPT !.year[st.currentYear] = Text(JsonOfYear(st.monthlyData))]
    /\ KeepState /\ KeepRest /\ UNCHANGED timers

\* runAutoFill as called with the effect's currentYear at instant Now.
RunAutoFill ==
    IF Now.year # st.currentYear THEN KeepState
    ELSE LET next == AutoFillB(q.monthlyData, Now)
         IN  IF next = q.monthlyData THEN KeepState ELSE SetNew("monthlyData", next)

\* useEffect(() => { runAutoFill(); setInterval(runAutoFill, 60000); ... },
\* [currentYear]); its cleanup cleared the interval of the previous run.
EffSweepB ==
    /\ Run("b", "sweepB")
    /\ RunAutoFill
    /\ timers' = Started(Cleared(timers, "sweep"), "sweep")
    /\ KeepRest /\ UNCHANGED store

\* The effects with the save declared before the load.
EffectsAfterRenderBSaveFirst ==
    LET yearChanged == q.currentYear # st.currentYear
        Due(e) ==
            CASE e = "loadB"  -> yearChanged
              [] e = "saveB"  -> ObjDirty("monthlyData") \/ yearChanged
              [] e = "sweepB" -> yearChanged
    IN  SelectSeq(<<"saveB", "loadB", "sweepB">>, Due)

EffectsAfterRenderB ==
    LET yearChanged == q.currentYear # st.currentYear
        Due(e) ==
            CASE e = "loadB"  -> yearChanged
              [] e = "saveB"  -> ObjDirty("monthlyData") \/ yearChanged
              [] e = "sweepB" -> yearChanged
    IN  SelectSeq(<<"loadB", "saveB", "sweepB">>, Due)

RenderB ==
    /\ variant = "b"
    /\ effects = <<>>
    /\ Dirty
    /\ st' = q
    /\ ident' = [f \in ObjFields |-> IF tags[f] = "same" THEN ident[f] ELSE "obj"]
    /\ tags' = NoTags
    /\ effects' = EffectsAfterRenderB
    /\ UNCHANGED <<variant, mounted, harnessVars, clock, store, q, gestures, timers, drag, lastOp>>

\* The 60-second interval fires.
SweepTimerB ==
    /\ TimerFires("b", "sweep")
    /\ IF mounted THEN RunAutoFill ELSE KeepState
    /\ lastOp' = [op |-> "sweep"]
    /\ KeepDash /\ UNCHANGED <<store, gestures, timers>>

TickB ==
    /\ TimerFires("b", "clock")
    /\ IF mounted THEN SetNew("currentTime", Now) ELSE KeepState
    /\ lastOp' = [op |-> "tick"]
    /\ KeepDash /\ UNCHANGED <<store, gestures, timers>>

\* A day button of the displayed month: handleDayClick(displayMonth, idx).
DayClickHandlerB(idx) ==
    /\ Handling("b")
    /\ idx + 1 \in DOMAIN st.monthlyData[st.displayMonth + 1].days
    /\ SetNew("monthlyData", DayClickB(q.monthlyData, st.displayMonth, idx))
    /\ lastOp' = [op |-> "click", month |-> st.displayMonth, day |-> idx]
    /\ KeepDash /\ UNCHANGED <<store, gestures, timers>>

\* A month button: setDisplayMonth(m.month).
MonthSelectB(m) ==
    /\ Handling("b")
    /\ \E i \in DOMAIN st.monthlyData : st.monthlyData[i].month = m
    /\ q' = [q EXCEPT !.displayMonth = m]
    /\ lastOp' = [op |-> "month"]
    /\ KeepDash /\ UNCHANGED <<store, tags, gestures, timers>>

\* The year buttons: setCurrentYear(y => y - 1) and (y => y + 1).  lastOp keeps
\* the year left, its data, and the record then stored for the year entered.
YearStepB(d) ==
    /\ Handling("b")
    /\ st.currentYear + d \in YearKeys
    /\ q' = [q EXCEPT !.currentYear = @ + d]
    /\ lastOp' = [op |-> "year", from |-> st.currentYear, data |-> st.monthlyData,
                  record |-> store.year[st.currentYear + d]]
    /\ KeepDash /\ UNCHANGED <<store, tags, gestures, timers>>

(***************************************************************************)
(* src/a: effects, render and handlers.  currentYear is no state: every    *)
(* render reads it off the clock.                                          *)
(***************************************************************************)
JsonOfA(year, displayMonth, data) ==
    JObj([year |-> JNum(year), displayMonth |-> JNum(displayMonth),
          monthlyData |-> JArr(data)])

\* useEffect(load the record, [currentYear]): monthlyData is taken as stored
\* when the record's year is currentYear; displayMonth is clamped to 0..11.
EffLoadA ==
    /\ Run("a", "loadA")
    /\ LET raw == store.a
           parsed == raw.json
           okData == /\ Field(parsed, "year").type = "number"
                     /\ Field(parsed, "year").n = st.currentYear
                     /\ Field(parsed, "monthlyData").type = "array"
           okMonth == Field(parsed, "displayMonth").type = "number"
       IN  IF raw.kind # "text" THEN KeepState
           ELSE /\ q' = [q EXCEPT
                          !.monthlyData = IF okData THEN Field(parsed, "monthlyData").items
                                          ELSE @,
                          !.displayMonth = IF okMonth
                                           THEN Max2(0, Min2(11, Field(parsed, "displayMonth").n))
                                           ELSE @]
                /\ tags' = [tags EXCEPT !.monthlyData = IF okData THEN "new" ELSE @]
    /\ KeepRest /\ UNCHANGED <<store, timers>>

\* useEffect(save the record, [currentYear, displayMonth, monthlyData, ...])
EffSaveA ==
    /\ Run("a", "saveA")
    /\ store' = [store EXCEPT
                   !.a = Text(JsonOfA(st.currentYear, st.displayMonth, st.monthlyData))]
    /\ KeepState /\ KeepRest /\ UNCHANGED timers

EffClockA ==
    /\ Run("a", "clockA")
    /\ timers' = Started(timers, "clock")
    /\ KeepState /\ KeepRest /\ UNCHANGED store

\* autoFillPastDays at instant Now (it reads no year).
AutoFillPastDays ==
    LET next == AutoFillA(q.monthlyData, Now)
    IN  IF next = q.monthlyData THEN KeepState ELSE SetNew("monthlyData", next)

\* useEffect(() => { autoFillPastDays(); setInterval(autoFillPastDays, 60000) }, [])
EffSweepA ==
    /\ Run("a", "sweepA")
    /\ AutoFillPastDays
    /\ timers' = Started(timers, "sweep")
    /\ KeepRest /\ UNCHANGED store

\* The inner loop of the streak effect: days d, d-1, ..., 0 of one month.
\* acc = [streak, stop].
RECURSIVE StreakDaysA(_, _, _)
StreakDaysA(days, d, acc) ==
    IF d < 0 \/ acc.stop THEN acc
    ELSE LET status == days[d + 1].status
         IN  StreakDaysA(days, d - 1,
                 IF status = "safe" THEN [acc EXCEPT !.streak = @ + 1]
                 ELSE IF status \in {"nearMiss", "accident"} THEN [acc EXCEPT !.stop = TRUE]
                 ELSE acc)

\* The index of the last day of days with a status, or -1.
LastTrackedIndex(days) ==
    LET tracked == {i \in DOMAIN days : days[i].status # "unset"}
    IN  IF tracked = {} THEN -1 ELSE (CHOOSE i \in tracked : \A j \in tracked : j <= i) - 1

\* The outer loop: months m, m-1, ..., 0.
RECURSIVE StreakMonthsA(_, _, _, _)
StreakMonthsA(data, displayMonth, m, acc) ==
    IF m < 0 \/ acc.stop THEN acc
    ELSE IF m + 1 \notin DOMAIN data THEN StreakMonthsA(data, displayMonth, m - 1, acc)
    ELSE LET days == data[m + 1].days
             last == IF m = displayMonth THEN LastTrackedIndex(days) ELSE Len(days) - 1
         IN  StreakMonthsA(data, displayMonth, m - 1, StreakDaysA(days, last, acc))

StreakA(data, displayMonth) ==
    StreakMonthsA(data, displayMonth, displayMonth, [streak |-> 0, stop |-> FALSE]).streak

\* useEffect(compute the streak, [monthlyData, displayMonth])
EffStreakA ==
    /\ Run("a", "streakA")
    /\ IF Len(st.monthlyData) = 0 THEN KeepState
       ELSE /\ q' = [q EXCEPT !.safetyStreak = StreakA(st.monthlyData, st.displayMonth)]
            /\ tags' = tags
    /\ KeepRest /\ UNCHANGED <<store, timers>>

EffectsAfterRenderA ==
    LET yearChanged == Now.year # st.currentYear
        monthChanged == q.displayMonth # st.displayMonth
        Due(e) ==
            CASE e = "loadA"   -> yearChanged
              [] e = "saveA"   -> yearChanged \/ monthChanged \/ ObjDirty("monthlyData")
              [] e = "streakA" -> ObjDirty("monthlyData") \/ monthChanged
    IN  SelectSeq(<<"loadA", "saveA", "streakA">>, Due)

RenderA ==
    /\ variant = "a"
    /\ effects = <<>>
    /\ Dirty
    /\ st' = [q EXCEPT !.currentYear = Now.year]
    /\ q' = [q EXCEPT !.currentYear = Now.year]
    /\ ident' = [f \in ObjFields |-> IF tags[f] = "same" THEN ident[f] ELSE "obj"]
    /\ tags' = NoTags
    /\ effects' = EffectsAfterRenderA
    /\ UNCHANGED <<variant, mounted, harnessVars, clock, store, gestures, timers, drag, lastOp>>

SweepTimerA ==
    /\ TimerFires("a", "sweep")
    /\ IF mounted THEN AutoFillPastDays ELSE KeepState
    /\ lastOp' = [op |-> "sweep"]
    /\ KeepDash /\ UNCHANGED <<store, gestures, timers>>

TickA ==
    /\ TimerFires("a", "clock")
    /\ IF mounted THEN SetNew("currentTime", Now) ELSE KeepState
    /\ lastOp' = [op |-> "tick"]
    /\ KeepDash /\ UNCHANGED <<store, gestures, timers>>

\* A day button of the displayed month: handleDayClick(displayMonth,
\* dayIndex); the updater also advances the displayed month when the
\* clicked month is now completed.
DayClickHandlerA(dayIndex) ==
    /\ Handling("a")
    /\ st.displayMonth + 1 \in DOMAIN st.monthlyData
    /\ dayIndex + 1 \in DOMAIN st.monthlyData[st.displayMonth + 1].days
    /\ LET next == DayClickA(q.monthlyData, st.displayMonth, dayIndex)
           advance == next[st.displayMonth + 1].completed /\ st.displayMonth < 11
       IN  /\ q' = [q EXCEPT !.monthlyData = next,
                             !.displayMonth = IF advance THEN st.displayMonth + 1 ELSE @]
           /\ tags' = [tags EXCEPT !.monthlyData = "new"]
    /\ lastOp' = [op |-> "click", month |-> st.displayMonth, day |-> dayIndex]
    /\ KeepDash /\ UNCHANGED <<store, gestures, timers>>

\* A month button: handleMonthSelect(monthData.month).
MonthSelectA(m) ==
    /\ Handling("a")
    /\ \E i \in DOMAIN st.monthlyData : st.monthlyData[i].month = m
    /\ q' = [q EXCEPT !.displayMonth = m]
    /\ lastOp' = [op |-> "month"]
    /\ KeepDash /\ UNCHANGED <<store, tags, gestures, timers>>

(***************************************************************************)
(* src/src: the calendar handlers.                                         *)
(***************************************************************************)

\* An updater that writes days[day] where the source writes days[day - 1].
SetDayStatusFnOffByOne(prev, displayMonth, day, status) ==
    IF displayMonth + 1 \in DOMAIN prev /\ day + 1 \in DOMAIN prev[displayMonth + 1].days
    THEN [prev EXCEPT ![displayMonth + 1].days[day + 1].status = status]
    ELSE prev

\* The updater of setDayStatus(day, status) for the displayed month.
SetDayStatusFn(prev, displayMonth, day, status) ==
    IF displayMonth + 1 \in DOMAIN prev /\ day \in DOMAIN prev[displayMonth + 1].days
    THEN [prev EXCEPT ![displayMonth + 1].days[day].status = status]
    ELSE prev

\* The SAFE / NEAR / ACC / CLEAR buttons of a day cell.
SetDayStatus(day, status) ==
    /\ Handling("main")
    /\ day \in 1..DaysInMonth(st.currentYear, st.displayMonth)
    /\ SetNew("monthlyData", SetDayStatusFn(q.monthlyData, st.displayMonth, day, status))
    /\ lastOp' = [op |-> "set"]
    /\ KeepDash /\ UNCHANGED <<store, gestures, timers>>

\* The Prev button: setDisplayMonth(m => (m + 11) % 12).
PrevMonth ==
    /\ Handling("main")
    /\ q' = [q EXCEPT !.displayMonth = (@ + 11) % 12]
    /\ lastOp' = [op |-> "month"]
    /\ KeepDash /\ UNCHANGED <<store, tags, gestures, timers>>

\* The Next button: setDisplayMonth(m => (m + 1) % 12).
NextMonth ==
    /\ Handling("main")
    /\ q' = [q EXCEPT !.displayMonth = (@ + 1) % 12]
    /\ lastOp' = [op |-> "month"]
    /\ KeepDash /\ UNCHANGED <<store, tags, gestures, timers>>

\* Time passes: the wall clock reaches the next instant.
ClockAdvance ==
    /\ variant \in Variants
    /\ Idle
    /\ clock < Len(Instants)
    /\ clock' = clock + 1
    /\ lastOp' = [op |-> "time"]
    /\ UNCHANGED <<variant, mounted, harnessVars, store, st, q, tags, ident, effects, gestures,
                   timers, drag>>

(***************************************************************************)
(* SpecCal: the calendar of each variant on a fresh browser profile.  The  *)
(* user clicks (sets) the days of ClickCells while a year of ClickYears is *)
(* displayed, moves between months and (src/b) years, reloads; the timers  *)
(* fire; time passes through Instants.                                     *)
(***************************************************************************)
\* <<month index, day of month>> of the day cells the user touches.
ClickCells == {<<1, 1>>, <<1, 2>>}
ClickYears == {2024}
MonthButtons == {0, 1}
Statuses == {"unset", "safe", "near_miss", "accident"}

Clickable(day) == st.currentYear \in ClickYears /\ <<st.displayMonth, day>> \in ClickCells

InitCal ==
    /\ variant \in Variants
    /\ NoHarness
    /\ clock = 1
    /\ store = EmptyStore
    /\ Constructed(variant)
    /\ lastOp = [op |-> "none"]

NextCal ==
    \/ EffClock
    \/ EffLoadYear
    \/ EffSaveYear
    \/ EffLoadLayout
    \/ EffSaveLayout
    \/ EffSaveSlots
    \/ EffAutoMark
    \/ RenderMain
    \/ Tick
    \/ \E day \in 1..31 : \E s \in Statuses : Clickable(day) /\ SetDayStatus(day, s)
    \/ st.displayMonth \in {0, 1} /\ PrevMonth
    \/ st.displayMonth \in {0, 11} /\ NextMonth
    \/ EffLoadA
    \/ EffSaveA
    \/ EffClockA
    \/ EffSweepA
    \/ EffStreakA
    \/ RenderA
    \/ TickA
    \/ SweepTimerA
    \/ \E day \in 1..31 : Clickable(day) /\ DayClickHandlerA(day - 1)
    \/ \E m \in MonthButtons : MonthSelectA(m)
    \/ EffClockB
    \/ EffLoadB
    \/ EffSaveB
    \/ EffSweepB
    \/ RenderB
    \/ TickB
    \/ SweepTimerB
    \/ \E day \in 1..31 : Clickable(day) /\ DayClickHandlerB(day - 1)
    \/ \E m \in MonthButtons : MonthSelectB(m)
    \/ \E d \in {-1, 1} : YearStepB(d)
    \/ ClockAdvance
    \/ Reload

SpecCal == InitCal /\ [][NextCal]_vars

(***************************************************************************)
(* Harness for handleDayClick of src/a and src/b: a year in which one      *)
(* month holds any status on the clicked day and is otherwise empty or     *)
(* full; the same day is clicked MaxClicks times in a row.                 *)
(***************************************************************************)
MaxClicks == 4

ClickDays == {0, 28}

\* The status values of variant v as its source spells them.
StatusesOf(v) == IF v = "a" THEN {"unset", "safe", "nearMiss", "accident"} ELSE Statuses

\* Year data of variant v: month m holds status s on day index d and the
\* status fill on its other days.
ClickInput(v, year, m, d, s, fill) ==
    LET base == CreateYearDataOf(v, year)
        days == [i \in DOMAIN base[m + 1].days |->
                    [base[m + 1].days[i] EXCEPT !.status = IF i = d + 1 THEN s ELSE fill]]
    IN  [base EXCEPT ![m + 1] =
            IF v = "a" THEN [@ EXCEPT !.days = days, !.completed = AllSet(days)]
            ELSE [@ EXCEPT !.days = days]]

InitClick ==
    /\ variant \in {"a", "b"}
    /\ \E year \in ClickYears : \E m \in MonthButtons : \E d \in ClickDays :
       \E s \in StatusesOf(variant) : \E fill \in {"unset", "safe"} :
           call = [fn |-> "handleDayClick", monthIndex |-> m, dayIndex |-> d,
                   original |-> ClickInput(variant, year, m, d, s, fill), times |-> 0]
    /\ ret = <<>>
    /\ DashIdle

\* One more click on the day: the updater runs on the data the previous
\* click returned.
CallDayClick ==
    /\ call.fn = "handleDayClick"
    /\ call.times < MaxClicks
    /\ LET prev == IF call.times = 0 THEN call.original ELSE ret
       IN  ret' = IF variant = "a" THEN DayClickA(prev, call.monthIndex, call.dayIndex)
                  ELSE DayClickB(prev, call.monthIndex, call.dayIndex)
    /\ call' = [call EXCEPT !.times = @ + 1]
    /\ UNCHANGED <<variant, dashVars>>

NextClick == CallDayClick

SpecClick == InitClick /\ [][NextClick]_vars

(***************************************************************************)
(* Properties of the day statuses.                                         *)
(***************************************************************************)

\* The status a stored value stands for (src/a spells near_miss "nearMiss").
StatusName(s) == IF s = "nearMiss" THEN "near_miss" ELSE s

CycleSuccessor(s) ==
    CASE s = "unset"     -> "safe"
      [] s = "safe"      -> "near_miss"
      [] s = "near_miss" -> "accident"
      [] s = "accident"  -> "unset"

\* Status names of a whole year, month by month and day by day.
StatusNames(data) ==
    [i \in DOMAIN data |->
        [j \in DOMAIN data[i].days |-> StatusName(data[i].days[j].status)]]

\* A day button of src/a or src/b is being handled in this step.
ClickStep == variant \in {"a", "b"} /\ Idle /\ lastOp'.op = "click"

\* C8: in src/a and src/b one day click on (monthIndex, dayIndex) moves that
\* day's status to its successor in unset -> safe -> near_miss -> accident
\* -> unset and leaves the status of every other day of every month as it
\* was.
C8_ClickCyclesOneDay ==
    [][ClickStep =>
        LET before == StatusNames(q.monthlyData)
            after  == StatusNames(q'.monthlyData)
            m      == lastOp'.month + 1
            d      == lastOp'.day + 1
        IN  after = [before EXCEPT ![m][d] = CycleSuccessor(@)]]_vars

\* src/b: the second of February was clicked up to accident while the first,
\* filled by the sweep, stayed safe.
C8_Witness ==
    /\ variant = "b"
    /\ Idle
    /\ lastOp = [op |-> "click", month |-> 1, day |-> 1]
    /\ st.monthlyData[2].days[2].status = "accident"
    /\ st.monthlyData[2].days[1].status = "safe"

\* C9: in src/a and src/b, for every day and every starting status, four
\* day clicks on that day in a row return the day to its starting status.
C9_FourClicksRestore ==
    (call.fn = "handleDayClick" /\ call.times = 4) =>
        ret[call.monthIndex + 1].days[call.dayIndex + 1].status
            = call.original[call.monthIndex + 1].days[call.dayIndex + 1].status

\* src/a: a near miss in an otherwise full month, clicked four times.
C9_Witness ==
    /\ variant = "a"
    /\ call.fn = "handleDayClick"
    /\ call.times = 4
    /\ call.original[call.monthIndex + 1].days[call.dayIndex + 1].status = "nearMiss"
    /\ call.original[call.monthIndex + 1].completed
    /\ ret = call.original

(***************************************************************************)
(* Properties of the sweeps.                                               *)
(***************************************************************************)

\* The instant an auto-fill run takes for now: src/src reads the rendered
\* currentTime, src/a and src/b read the wall clock.
NowOf == IF variant = "main" THEN st.currentTime ELSE Now

\* This step is an auto-fill run: the effect of the variant runs, or the
\* 60-second interval of src/a or src/b fires.
AutoFillRuns ==
    \/ effects # <<>> /\ Head(effects) \in {"autoMark", "sweepA", "sweepB"}
    \/ variant \in {"a", "b"} /\ Idle /\ lastOp'.op = "sweep"

\* The run works on data of now's year.
OnNowsYear == st.currentYear = NowOf.year /\ Len(q.monthlyData) = 12

\* Every day of now's month before today that was unset is safe.
PastDaysFilled ==
    LET m == NowOf.month + 1 IN
    \A i \in DOMAIN q.monthlyData[m].days :
        (i < NowOf.date /\ q.monthlyData[m].days[i].status = "unset")
            => q'.monthlyData[m].days[i].status = "safe"

\* Today is safe if it was unset and the hour is 16 or later.
TodayFilled ==
    LET m == NowOf.month + 1 IN
    \A i \in DOMAIN q.monthlyData[m].days :
        (i = NowOf.date /\ NowOf.hours >= 16 /\ q.monthlyData[m].days[i].status = "unset")
            => q'.monthlyData[m].days[i].status = "safe"

\* Every day of now's month before today keeps its status.
PastDaysKept ==
    LET m == NowOf.month + 1 IN
    \A i \in DOMAIN q.monthlyData[m].days :
        i < NowOf.date => q'.monthlyData[m].days[i] = q.monthlyData[m].days[i]

C11_AutoFillOnlyUnsetToSafe ==
    [][AutoFillRuns =>
        \A i \in DOMAIN q.monthlyData : \A j \in DOMAIN q.monthlyData[i].days :
            LET before == q.monthlyData[i].days[j].status
                after  == q'.monthlyData[i].days[j].status
            IN  after # before =>
                    /\ before = "unset" /\ after = "safe"
                    /\ i = NowOf.month + 1
                    /\ j <= NowOf.date
                    /\ (j = NowOf.date => NowOf.hours >= 16)]_vars

\* src/a, before 16:00 on the second of February: the interval refilled the
\* first, which had been clicked back to unset, and left the accident of
\* the second alone.
C11_Witness ==
    /\ variant = "a"
    /\ lastOp.op = "sweep"
    /\ Now.date = 2 /\ Now.hours < 16
    /\ st.monthlyData[2].days[1].status = "unset"
    /\ q.monthlyData[2].days[1].status = "safe"
    /\ q.monthlyData[2].days[2].status = "accident"

(***************************************************************************)
(* Harness for the sweeps of src/a and src/b: year data whose February     *)
(* holds any statuses on its first days, any instant of Instants, (src/b)  *)
(* any displayed year; the sweep is run MaxSweeps times with the same now. *)
(***************************************************************************)
MaxSweeps == 2

SweepStatuses == {"unset", "safe", "accident"}

\* Year data of variant v whose February starts with the statuses s1, s2, s3.
SweepInput(v, year, s1, s2, s3) ==
    LET base == CreateYearDataOf(v, year)
        days == [i \in DOMAIN base[2].days |->
                    [base[2].days[i] EXCEPT !.status =
                        IF i = 1 THEN s1 ELSE IF i = 2 THEN s2
                        ELSE IF i = 3 THEN s3 ELSE @]]
    IN  [base EXCEPT ![2] =
            IF v = "a" THEN [@ EXCEPT !.days = days, !.completed = AllSet(days)]
            ELSE [@ EXCEPT !.days = days]]

InitSweep ==
    /\ variant \in {"a", "b"}
    /\ \E year \in ClickYears : \E shown \in YearKeys : \E n \in DOMAIN Instants :
       \E s1 \in SweepStatuses : \E s2 \in SweepStatuses : \E s3 \in SweepStatuses :
           call = [fn |-> "sweep", now |-> Instants[n], currentYear |-> shown,
                   original |-> SweepInput(variant, year, s1, s2, s3),
                   once |-> <<>>, times |-> 0]
    /\ ret = <<>>
    /\ DashIdle

\* One run of autoFillPastDays (src/a) or runAutoFill (src/b) at call.now.
CallSweep ==
    /\ call.fn = "sweep"
    /\ call.times < MaxSweeps
    /\ LET prev == IF call.times = 0 THEN call.original ELSE ret
           next == IF variant = "a" THEN AutoFillA(prev, call.now)
                   ELSE IF call.now.year # call.currentYear THEN prev
                   ELSE AutoFillB(prev, call.now)
       IN  /\ ret' = next
           /\ call' = [call EXCEPT !.times = @ + 1,
                                   !.once = IF call.times = 0 THEN next ELSE @]
    /\ UNCHANGED <<variant, dashVars>>

NextSweep == CallSweep

SpecSweep == InitSweep /\ [][NextSweep]_vars

\* C12: for every calendar state and every instant now, running the sweep
\* again with the same now yields the calendar state the first run yielded.
C12_SweepIdempotent ==
    (call.fn = "sweep" /\ call.times >= 2) => ret = call.once

\* The first run filled two days at once.
C12_Witness ==
    /\ call.fn = "sweep"
    /\ call.times = 2
    /\ call.original[2].days[1].status = "unset"
    /\ call.original[2].days[2].status = "unset"
    /\ call.once[2].days[1].status = "safe"
    /\ call.once[2].days[2].status = "safe"
    /\ ret = call.once

\* The year the calendar data held in memory was built for.
DataYear(data) == data[1].year

\* C13: in every variant, when the year of the calendar data held in memory
\* differs from the year of now (another year is displayed, or the clock
\* crossed into a new year while the dashboard stayed mounted), an
\* auto-fill run changes no day status.
C13_NoAutoFillInOtherYear ==
    [][(AutoFillRuns /\ Len(q.monthlyData) = 12 /\ DataYear(q.monthlyData) # NowOf.year)
          => StatusNames(q'.monthlyData) = StatusNames(q.monthlyData)]_vars

(***************************************************************************)
(* SpecLive: src/a and src/b on the second of February with the scheduling *)
(* the runtime guarantees: React runs every pending effect and render, and *)
(* the 60-second interval keeps firing for as long as it is armed.  The    *)
(* user clicks the days of LiveDays; the clock passes 16:00 but stays in   *)
(* the month, and the loaded year stays the current one.                   *)
(***************************************************************************)
LiveDays == {1}

EffectsAndRenders ==
    \/ EffLoadA \/ EffSaveA \/ EffClockA \/ EffSweepA \/ EffStreakA \/ RenderA
    \/ EffClockB \/ EffLoadB \/ EffSaveB \/ EffSweepB \/ RenderB

InitLive ==
    /\ variant \in {"a", "b"}
    /\ NoHarness
    /\ clock = 1
    /\ store = EmptyStore
    /\ Constructed(variant)
    /\ lastOp = [op |-> "none"]

NextLive ==
    \/ EffLoadA
    \/ EffSaveA
    \/ EffClockA
    \/ EffSweepA
    \/ EffStreakA
    \/ RenderA
    \/ SweepTimerA
    \/ \E day \in LiveDays : Clickable(day) /\ DayClickHandlerA(day - 1)
    \/ EffClockB
    \/ EffLoadB
    \/ EffSaveB
    \/ EffSweepB
    \/ RenderB
    \/ SweepTimerB
    \/ \E day \in LiveDays : Clickable(day) /\ DayClickHandlerB(day - 1)
    \/ Instants[clock + 1].month = Now.month /\ Instants[clock + 1].date = Now.date
       /\ ClockAdvance

SpecLive ==
    /\ InitLive
    /\ [][NextLive]_vars
    /\ WF_vars(EffectsAndRenders)
    /\ SF_vars(SweepTimerA)
    /\ SF_vars(SweepTimerB)

\* Day d of now's month lies before today and is unset in the data of the
\* loaded year, which is now's year.
Overdue(d) ==
    /\ variant \in {"a", "b"}
    /\ st.currentYear = Now.year
    /\ Len(q.monthlyData) = 12
    /\ DataYear(q.monthlyData) = Now.year
    /\ d < Now.date
    /\ d \in DOMAIN q.monthlyData[Now.month + 1].days
    /\ q.monthlyData[Now.month + 1].days[d].status = "unset"

\* Day d of February has a status.
HasStatus(d) == q.monthlyData[2].days[d].status # "unset"

RECURSIVE FlattenedFrom(_, _)
FlattenedFrom(data, i) ==
    IF i > Len(data) THEN <<>>
    ELSE LET m == data[i]
         IN  [j \in DOMAIN m.days |->
                 LET c == JsDate(m.year, m.month, m.days[j].day)
                 IN  [status |-> m.days[j].status,
                      date   |-> DaysFromCivil(c.year, c.month + 1, c.date)]]
             \o FlattenedFrom(data, i + 1)

\* src/b: flattened.sort((a, b) => a.date.getTime() - b.date.getTime())
SortedByDate(flat) ==
    IF \A i \in 1..(Len(flat) - 1) : flat[i].date <= flat[i + 1].date THEN flat
    ELSE SortSeq(flat, LAMBDA a, b : a.date < b.date)

\* src/b: `if (status === null) continue` - the last index up to i whose day
\* has a status, 0 if there is none.
LastSetUpTo(flat, i) ==
    LET set == {k \in 1..i : flat[k].status # "unset"}
    IN  IF set = {} THEN 0 ELSE CHOOSE k \in set : \A l \in set : l <= k

\* A walk in which a near miss ends the streak as an accident does.
RECURSIVE StreakWalkBSafeOnly(_, _, _)
StreakWalkBSafeOnly(flat, i, streak) ==
    LET j == LastSetUpTo(flat, i)
    IN  IF j < 1 THEN streak
        ELSE IF flat[j].status # "safe" THEN streak
        ELSE StreakWalkBSafeOnly(flat, j - 1, streak + 1)

\* A walk that an unset day ends.
RECURSIVE StreakWalkBStopsAtUnset(_, _, _)
StreakWalkBStopsAtUnset(flat, i, streak) ==
    IF i < 1 THEN streak
    ELSE IF flat[i].status \in {"unset", "accident"} THEN streak
    ELSE StreakWalkBStopsAtUnset(flat, i - 1, streak + 1)

\* src/b: the for loop of safetyStreak from index i down.
\* (the iterations that `continue` on an unset day are taken in one step).
RECURSIVE StreakWalkB(_, _, _)
StreakWalkB(flat, i, streak) ==
    LET j == LastSetUpTo(flat, i)
    IN  IF j < 1 THEN streak
        ELSE IF flat[j].status = "accident" THEN streak
        ELSE StreakWalkB(flat, j - 1, streak + 1)

\* src/b: the useMemo body of safetyStreak.
safetyStreakB(data) ==
    IF Len(data) # 12 THEN 0
    ELSE LET flat == SortedByDate(FlattenedFrom(data, 1))
         IN  StreakWalkB(flat, Len(flat), 0)

(***************************************************************************)
(* Harness for the streaks: a chronological list of statuses ends on the   *)
(* as-of day, the second of February; every other day of the year is       *)
(* unset.  src/src computes as of today, src/a and src/b as of the last    *)
(* day that has a status.                                                  *)
(***************************************************************************)
StreakStatuses == {"safe", "near_miss", "accident"}

StreakLists ==
    [1..3 -> StreakStatuses] \cup [1..4 -> StreakStatuses]

\* The status value as variant v stores it.
StoredStatus(v, s) == IF v = "a" /\ s = "near_miss" THEN "nearMiss" ELSE s

\* Year data of variant v with list ending on the day asOf.
StreakInput(v, asOf, list) ==
    LET base == CreateYearDataOf(v, asOf.year)
        At(k) == JsDate(asOf.year, asOf.month, asOf.date - (Len(list) - k))
    IN  [i \in DOMAIN base |->
            [base[i] EXCEPT !.days =
                [j \in DOMAIN base[i].days |->
                    LET ks == {k \in DOMAIN list : At(k).month = i - 1 /\ At(k).date = j}
                    IN  IF ks = {} THEN base[i].days[j]
                        ELSE [base[i].days[j] EXCEPT
                                 !.status = StoredStatus(v, list[CHOOSE k \in ks : TRUE])]]]]

InitStreak ==
    /\ variant \in Variants
    /\ \E list \in StreakLists :
           call = [fn |-> "streak", list |-> list, today |-> Instants[1],
                   data |-> StreakInput(variant, Instants[1], list)]
    /\ ret = <<>>
    /\ DashIdle

\* The streak of the variant for call.data, computed on call.today with the
\* month and year of that day displayed.
CallStreak ==
    /\ call.fn = "streak"
    /\ ret' = CASE variant = "main" -> safetyStreak(call.data, call.today, call.today.year)
                [] variant = "a"    -> StreakA(call.data, call.today.month)
                [] variant = "b"    -> safetyStreakB(call.data)
    /\ call' = [call EXCEPT !.fn = "streaked"]
    /\ UNCHANGED <<variant, dashVars>>

NextStreak == CallStreak

SpecStreak == InitStreak /\ [][NextStreak]_vars

\* The number of statuses at the end of list that are all in counted.
RECURSIVE TrailingRun(_, _)
TrailingRun(list, counted) ==
    IF list = <<>> \/ list[Len(list)] \notin counted THEN 0
    ELSE 1 + TrailingRun(SubSeq(list, 1, Len(list) - 1), counted)

DayOfYear(now) ==
    DaysFromCivil(now.year, now.month + 1, now.date) - DaysFromCivil(now.year, 1, 1) + 1

\* C16: in src/src, once the dashboard has rendered the current time, the
\* streak it shows is 0 whenever the displayed year differs from the real
\* current year, and it never exceeds the number of days from 1 January of
\* the current year to today inclusive.
C16_StreakStaysInYear ==
    (variant = "main" /\ Idle /\ st.currentTime = Now) =>
        /\ (st.currentYear # Now.year => st.safetyStreak = 0)
        /\ st.safetyStreak <= DayOfYear(Now)

(***************************************************************************)
(* src/b: monthSummary, a useMemo over [currentMonthData].                 *)
(***************************************************************************)

\* The reduce over the days from index i on, with accumulator acc.
RECURSIVE SummaryFrom(_, _, _)
SummaryFrom(days, i, acc) ==
    IF i > Len(days) THEN acc
    ELSE LET status == days[i].status
         IN  SummaryFrom(days, i + 1,
                 [safe     |-> acc.safe + (IF status = "safe" THEN 1 ELSE 0),
                  nearMiss |-> acc.nearMiss + (IF status = "near_miss" THEN 1 ELSE 0),
                  accident |-> acc.accident + (IF status = "accident" THEN 1 ELSE 0),
                  filled   |-> acc.filled + (IF status # "unset" THEN 1 ELSE 0),
                  total    |-> acc.total + 1])

\* monthSummary for monthlyData = data and the displayed month.
monthSummaryB(data, displayMonth) ==
    LET zero == [safe |-> 0, nearMiss |-> 0, accident |-> 0, filled |-> 0, total |-> 0]
    IN  IF displayMonth + 1 \notin DOMAIN data THEN zero
        ELSE SummaryFrom(data[displayMonth + 1].days, 1, zero)

(***************************************************************************)
(* SpecStoredYear: each variant mounted over storage that already holds a  *)
(* year record: one the dashboard wrote, one that passes isValidMonthlyData*)
(* with a status no dashboard of this variant writes, records of the wrong *)
(* shape, and text JSON.parse throws on.  The user then clicks (sets) the  *)
(* days of LiveDays, the interval fires, the page is reloaded.             *)
(***************************************************************************)
StoredYears(v) ==
    LET fresh == CreateYearDataOf(v, Instants[1].year)
    IN  { [fresh EXCEPT ![2].days[1].status = "accident"],
          \* a status this variant never writes; the shape is right
          [fresh EXCEPT ![2].days[1].status = IF v = "a" THEN "near_miss" ELSE "nearMiss"],
          \* eleven months
          SubSeq(fresh, 1, 11),
          \* months of another year
          CreateYearDataOf(v, Instants[1].year - 1),
          \* February with 28 days in a leap year
          [fresh EXCEPT ![2].days = SubSeq(@, 1, 28)],
          \* a month with the wrong index
          [fresh EXCEPT ![2].month = 2] }

StoredYearRecords(v) ==
    {Garbage} \cup
    {Text(IF v = "a" THEN JsonOfA(Instants[1].year, Instants[1].month, d) ELSE JsonOfYear(d)) :
        d \in StoredYears(v)}

InitStoredYear ==
    /\ variant \in Variants
    /\ NoHarness
    /\ clock = 1
    /\ \E raw \in StoredYearRecords(variant) :
           store = IF variant = "a" THEN [EmptyStore EXCEPT !.a = raw]
                   ELSE [EmptyStore EXCEPT !.year[Now.year] = raw]
    /\ Constructed(variant)
    /\ lastOp = [op |-> "none"]

NextStoredYear ==
    \/ EffClock
    \/ EffLoadYear
    \/ EffSaveYear
    \/ EffLoadLayout
    \/ EffSaveLayout
    \/ EffSaveSlots
    \/ EffAutoMark
    \/ RenderMain
    \/ \E day \in LiveDays : \E s \in Statuses : Clickable(day) /\ SetDayStatus(day, s)
    \/ EffLoadA
    \/ EffSaveA
    \/ EffClockA
    \/ EffSweepA
    \/ EffStreakA
    \/ RenderA
    \/ SweepTimerA
    \/ \E day \in LiveDays : Clickable(day) /\ DayClickHandlerA(day - 1)
    \/ EffClockB
    \/ EffLoadB
    \/ EffSaveB
    \/ EffSweepB
    \/ RenderB
    \/ SweepTimerB
    \/ \E day \in LiveDays : Clickable(day) /\ DayClickHandlerB(day - 1)
    \/ Reload

SpecStoredYear == InitStoredYear /\ [][NextStoredYear]_vars

\* The number of days with status s.
CountStatus(days, s) == Cardinality({i \in DOMAIN days : days[i].status = s})

\* C17: in src/b, for the displayed month in every reachable state - also
\* with year data restored from a stored record that passed
\* isValidMonthlyData - monthSummary returns safe, near_miss and accident
\* equal to the number of days with that status, filled equal to their sum,
\* and total equal to the number of days of the month.
C17_MonthSummaryCounts ==
    (variant = "b" /\ st.displayMonth + 1 \in DOMAIN st.monthlyData) =>
        LET days == st.monthlyData[st.displayMonth + 1].days
            s    == monthSummaryB(st.monthlyData, st.displayMonth)
        IN  /\ s.safe = CountStatus(days, "safe")
            /\ s.nearMiss = CountStatus(days, "near_miss")
            /\ s.accident = CountStatus(days, "accident")
            /\ s.filled = s.safe + s.nearMiss + s.accident
            /\ s.total = Len(days)

\* The raw entry the year load effect of the variant reads.
StoredYearRaw == IF variant = "a" THEN store.a ELSE store.year[st.currentYear]

\* The entry cannot be parsed, or its monthlyData fails the shape test for
\* the displayed year.
BadYearRecord ==
    \/ StoredYearRaw = Garbage
    \/ /\ StoredYearRaw.kind = "text"
       /\ ~isValidMonthlyData(Field(StoredYearRaw.json, "monthlyData"), st.currentYear)

\* The year load effect of the variant runs in this step.
YearLoadRuns == effects # <<>> /\ Head(effects) \in {"loadYear", "loadA", "loadB"}

\* C19: in every variant, when the year load effect finds a stored year
\* record that cannot be parsed or whose monthlyData fails shape validation
\* (not 12 entries, a month with the wrong index or year, a days array of
\* the wrong length), the in-memory year data is fresh all-unset data for
\* the displayed year afterwards.
C19_BadYearRecordFallsBack ==
    [][(YearLoadRuns /\ BadYearRecord)
          => q'.monthlyData = CreateYearDataOf(variant, st.currentYear)]_vars

(***************************************************************************)
(* SpecStoredShape: src/src mounted over a stored layout record of the     *)
(* wrong shape: a group with too few or too many entries, a missing group, *)
(* a member that is no number - or over the record a dashboard wrote.  The *)
(* user toggles the lock, resets the layout, reloads.                      *)
(***************************************************************************)
LayoutJsonWith(g, items) ==
    JObj([k \in Groups |->
            IF k = g THEN JArr(items)
            ELSE JArr([i \in DOMAIN DEFAULT_LAYOUT[k] |-> JNum(DEFAULT_LAYOUT[k][i])])])

ShapeProfiles ==
    { JsonOfLayout(SavedLayout),
      StringLayoutJson,
      \* two columns, four columns, three center rows, one right row
      LayoutJsonWith("cols", <<JNum(50), JNum(50)>>),
      LayoutJsonWith("cols", <<JNum(25), JNum(25), JNum(25), JNum(25)>>),
      LayoutJsonWith("centerRows", <<JNum(40), JNum(30), JNum(30)>>),
      LayoutJsonWith("rightRows", <<JNum(100)>>),
      \* leftRows is no array; rightRows is missing
      JObj([k \in Groups |->
              IF k = "leftRows" THEN JStr("24,30,46") ELSE JsonOfLayout(DEFAULT_LAYOUT).fields[k]]),
      JObj([k \in Groups \ {"rightRows"} |-> JsonOfLayout(DEFAULT_LAYOUT).fields[k]]) }

InitStoredShape ==
    /\ variant = "main"
    /\ NoHarness
    /\ clock = 2
    /\ \E json \in ShapeProfiles : store = [EmptyStore EXCEPT !.layout = Text(json)]
    /\ Constructed("main")
    /\ lastOp = [op |-> "none"]

NextStoredShape ==
    \/ EffClock
    \/ EffLoadYear
    \/ EffSaveYear
    \/ EffLoadLayout
    \/ EffSaveLayout
    \/ EffSaveSlots
    \/ EffAutoMark
    \/ RenderMain
    \/ ToggleLock
    \/ ResetLayout
    \/ Reload

SpecStoredShape == InitStoredShape /\ [][NextStoredShape]_vars

\* The record's shape does not match the layout's: a group is missing or
\* no array, holds a non-number, or has another number of entries than the
\* group has (3 for cols and leftRows, 2 for centerRows and rightRows).
BadLayoutShape(data) ==
    \E g \in Groups :
        \/ Field(data, g).type # "array"
        \/ \E i \in DOMAIN Field(data, g).items : Field(data, g).items[i].type # "number"
        \/ Len(Field(data, g).items) # Len(DEFAULT_LAYOUT[g])

\* C20: in src/src, when the layout load effect at mount finds a stored
\* layout record whose shape does not match, the record is rejected and
\* the in-memory sizing stays the default layout.
C20_BadLayoutRecordRejected ==
    [][(/\ variant = "main"
        /\ effects # <<>> /\ Head(effects) = "loadLayout"
        /\ store.layout.kind = "text"
        /\ BadLayoutShape(store.layout.json))
          => q'.layout = DEFAULT_LAYOUT]_vars

(***************************************************************************)
(* SpecRound: src/src and src/b on a fresh profile at 16:00 on the second  *)
(* of February.  src/src: the first column splitter is dragged, two panels *)
(* are swapped, the layout is reset, the days of LiveDays are set; src/b:  *)
(* those days are clicked, the interval fires, another year is displayed.  *)
(* Either page may be reloaded at any time.                                *)
(***************************************************************************)
RoundDeltas == {-60, 60}
RoundSlots == {"leftTop", "centerTop"}

InitRound ==
    /\ variant \in {"main", "b"}
    /\ NoHarness
    /\ clock = 2
    /\ store = EmptyStore
    /\ Constructed(variant)
    /\ lastOp = [op |-> "none"]

NextRound ==
    \/ EffClock
    \/ EffLoadYear
    \/ EffSaveYear
    \/ EffLoadLayout
    \/ EffSaveLayout
    \/ EffSaveSlots
    \/ EffAutoMark
    \/ RenderMain
    \/ gestures = <<>> /\ PointerDown("cols", 0)
    \/ \E dx \in RoundDeltas : PointerMove(dx, 0)
    \/ PointerUp
    \/ ToggleLock
    \/ \E from \in RoundSlots : \E to \in RoundSlots : Drop(from, to)
    \/ ResetLayout
    \/ \E day \in LiveDays : \E s \in Statuses : Clickable(day) /\ SetDayStatus(day, s)
    \/ EffClockB
    \/ EffLoadB
    \/ EffSaveB
    \/ EffSweepB
    \/ RenderB
    \/ SweepTimerB
    \/ \E day \in LiveDays : Clickable(day) /\ DayClickHandlerB(day - 1)
    \/ \E d \in {-1, 1} : YearStepB(d)
    \/ Reload

SpecRound == InitRound /\ [][NextRound]_vars

\* What the load effects of a mount would put in memory from the records
\* now in storage.
ReloadedLayout ==
    IF store.layout.kind = "text" /\ isValidLayout(store.layout.json)
    THEN LoadedLayout(store.layout.json) ELSE DEFAULT_LAYOUT

ReloadedSlots ==
    IF store.slots.kind = "text" /\ isValidSlots(store.slots.json)
    THEN [k \in SlotKeys |-> Field(store.slots.json, k).s] ELSE DEFAULT_SLOTS

ReloadedYear == LoadedYearData(store.year[st.currentYear], st.currentYear)

MountedYear ==
    LET loaded == LoadedYearData(store.year[Now.year], Now.year)
    IN  IF variant = "b" THEN AutoFillB(loaded, Now)
        ELSE IF Now.hours < 16 THEN loaded
        ELSE AutoMarkToday(loaded, Now.month, Now.date)

OtherYear == Instants[2].year + 1

OtherYearRecords ==
    LET fresh == createYearData(OtherYear)
    IN  { Absent, Garbage,
          Text(JsonOfYear([fresh EXCEPT ![2].days[1].status = "accident"])),
          Text(JsonOfYear(SubSeq(fresh, 1, 11))),
          Text(JsonOfYear(createYearData(OtherYear - 1))) }

InitYearB ==
    /\ variant = "b"
    /\ NoHarness
    /\ clock = 2
    /\ \E raw \in OtherYearRecords : store = [EmptyStore EXCEPT !.year[OtherYear] = raw]
    /\ Constructed(variant)
    /\ lastOp = [op |-> "none"]

NextYearB ==
    \/ EffClockB
    \/ EffLoadB
    \/ EffSaveB
    \/ EffSweepB
    \/ RenderB
    \/ SweepTimerB
    \/ \E day \in LiveDays : DayClickHandlerB(day - 1)
    \/ \E d \in {-1, 1} : YearStepB(d)

SpecYearB == InitYearB /\ [][NextYearB]_vars

\* A year switch of src/b has settled.
YearSwitchSettled == variant = "b" /\ Idle /\ lastOp.op = "year"

\* The record of the year left still holds the data that year had in memory.
LeftYearKept == store.year[lastOp.from] = Text(JsonOfYear(lastOp.data))

\* What the load effect made of the record stored for the year entered.
EnteredYearLoaded == LoadedYearData(lastOp.record, st.currentYear)

\* C21 as stated: after a year switch of src/b has settled, the record of
\* the year left holds its last in-memory data, and the data in memory is
\* the record that was stored for the year entered if it passes validation,
\* fresh all-unset data for that year otherwise.
C21_YearSwitchLoadsRecord ==
    YearSwitchSettled => (LeftYearKept /\ st.monthlyData = EnteredYearLoaded)

\* C21, amended: ... and the data in memory is that record or fresh data,
\* with the overdue unset days of the current month marked safe by the
\* sweep of the year effect when the year entered is the real current year.
C21_YearSwitchLoadsThenSweeps ==
    YearSwitchSettled =>
        /\ LeftYearKept
        /\ st.monthlyData = IF st.currentYear = Now.year
                            THEN AutoFillB(EnteredYearLoaded, Now)
                            ELSE EnteredYearLoaded
        /\ store.year[st.currentYear] = Text(JsonOfYear(st.monthlyData))

\* Back in the real year after a visit to the other one whose record was
\* valid, with the day clicked to accident there kept in storage.
C21_Witness ==
    /\ YearSwitchSettled
    /\ st.currentYear = Now.year
    /\ lastOp.from = OtherYear
    /\ lastOp.data[2].days[1].status = "near_miss"
    /\ st.monthlyData[2].days[1].status = "accident"

(***************************************************************************)
(* src/src: drag and drop event by event (Drop above is a whole drag from  *)
(* one slot to another with nothing in between).                           *)
(***************************************************************************)
\* A drop target that accepts whatever the lock says.
canDropAlways == TRUE

\* Slot: useDrag({ canDrag: !layoutLocked }, [slot, layoutLocked])
canDrag == ~st.layoutLocked

\* DroppableSlot: useDrop({ canDrop: () => !locked }, [slot, locked, onSwap])
canDrop == ~st.layoutLocked

\* The pointer is pressed on the handle of slot and pulled: a drag begins if
\* canDrag allows it.
DragStart(slot) ==
    /\ Handling("main")
    /\ drag = NoDrag
    /\ drag' = IF canDrag THEN [fromSlot |-> slot] ELSE NoDrag
    /\ lastOp' = [op |-> "dragstart", locked |-> st.layoutLocked]
    /\ UNCHANGED <<variant, mounted, harnessVars, clock, st, ident, effects, store, q, tags,
                   gestures, timers>>

\* The dragged item is released over slot: drop runs if canDrop allows it.
DropOn(slot) ==
    /\ Handling("main")
    /\ drag # NoDrag
    /\ IF canDrop /\ drag.fromSlot # slot
       THEN SetNew("slots", swapSlots(q.slots, drag.fromSlot, slot))
       ELSE KeepState
    /\ drag' = NoDrag
    /\ lastOp' = [op |-> "drop", locked |-> st.layoutLocked, from |-> drag.fromSlot,
                  to |-> slot]
    /\ UNCHANGED <<variant, mounted, harnessVars, clock, st, ident, effects, store, gestures, timers>>

\* The dragged item is released outside every slot.
DragEnd ==
    /\ Handling("main")
    /\ drag # NoDrag
    /\ drag' = NoDrag
    /\ lastOp' = [op |-> "dragend", locked |-> st.layoutLocked]
    /\ UNCHANGED <<variant, mounted, harnessVars, clock, st, ident, effects, store, q, tags,
                   gestures, timers>>

(***************************************************************************)
(* SpecDnd: src/src on a fresh profile; panels are picked up, released     *)
(* over slots or outside them, and the lock button is pressed at any time, *)
(* also while an item is dragged.                                          *)
(***************************************************************************)
InitDnd ==
    /\ variant = "main"
    /\ NoHarness
    /\ clock = 2
    /\ store = EmptyStore
    /\ Constructed("main")
    /\ lastOp = [op |-> "none"]

NextDnd ==
    \/ EffClock
    \/ EffLoadYear
    \/ EffSaveYear
    \/ EffLoadLayout
    \/ EffSaveLayout
    \/ EffSaveSlots
    \/ EffAutoMark
    \/ RenderMain
    \/ ToggleLock
    \/ \E slot \in DragSlots : DragStart(slot)
    \/ \E slot \in DragSlots : DropOn(slot)
    \/ DragEnd
    \/ ResetLayout
    \/ Tick
    \/ Reload

SpecDnd == InitDnd /\ [][NextDnd]_vars

\* The step is the handling of a drag-and-drop event.
DndEvent == Idle /\ lastOp'.op \in {"dragstart", "drop", "dragend"}

\* C22: in src/src, while layoutLocked is true no drag starts, and no
\* drag-and-drop event - a drop on any slot included - changes the slot
\* mapping.
C22_LockedLayoutKeepsSlots ==
    [][(DndEvent /\ st.layoutLocked) =>
          /\ drag' = NoDrag
          /\ q'.slots = q.slots
          /\ st'.slots = st.slots]_vars

\* A panel picked up while the layout was unlocked has been released over
\* another slot after the layout was locked; an earlier drop had swapped.
C22_Witness ==
    /\ lastOp.op = "drop"
    /\ lastOp.locked
    /\ lastOp.from # lastOp.to
    /\ st.slots # DEFAULT_SLOTS

(***************************************************************************)
(* SpecBoth: src/src on a fresh profile from 15:00 to 16:00 on the second  *)
(* of February, both engines in use: the first column splitter is dragged, *)
(* two panels are swapped, the layout is reset; the first and second of    *)
(* February are set, the months around February are visited, the clock     *)
(* ticks, the page is reloaded.                                            *)
(***************************************************************************)
InitBoth ==
    /\ variant = "main"
    /\ NoHarness
    /\ clock = 1
    /\ store = EmptyStore
    /\ Constructed("main")
    /\ lastOp = [op |-> "none"]

NextBoth ==
    \/ EffClock
    \/ EffLoadYear
    \/ EffSaveYear
    \/ EffLoadLayout
    \/ EffSaveLayout
    \/ EffSaveSlots
    \/ EffAutoMark
    \/ RenderMain
    \/ gestures = <<>> /\ PointerDown("cols", 0)
    \/ \E dx \in RoundDeltas : PointerMove(dx, 0)
    \/ PointerUp
    \/ ToggleLock
    \/ \E from \in RoundSlots : \E to \in RoundSlots : Drop(from, to)
    \/ ResetLayout
    \/ \E day \in 1..2 : \E s \in {"unset", "accident"} : Clickable(day) /\ SetDayStatus(day, s)
    \/ st.displayMonth = 1 /\ PrevMonth
    \/ st.displayMonth = 0 /\ NextMonth
    \/ Tick
    \/ clock < 2 /\ ClockAdvance
    \/ Reload

SpecBoth == InitBoth /\ [][NextBoth]_vars

\* What the step handles or what triggered it: the events of the layout
\* engine and those of the calendar engine.
LayoutOps == {"down", "move", "up", "swap", "reset"}
CalendarOps == {"set", "month", "tick"}

CalendarKept ==
    /\ q'.monthlyData = q.monthlyData /\ st'.monthlyData = st.monthlyData
    /\ q'.displayMonth = q.displayMonth /\ st'.displayMonth = st.displayMonth
    /\ store'.year = store.year

LayoutKept ==
    /\ q'.layout = q.layout /\ st'.layout = st.layout
    /\ q'.slots = q.slots /\ st'.slots = st.slots
    /\ store'.layout = store.layout /\ store'.slots = store.slots

\* C23: in src/src a resize, a swap or a reset, and every render and effect
\* they trigger, leave the year data, the displayed month and the year
\* records unchanged; a day set, a month step, a clock tick with the
\* auto-mark it triggers, and every auto-mark effect, leave the sizing, the
\* slot mapping and their two records unchanged.
C23_EnginesIndependent ==
    [][/\ lastOp'.op \in LayoutOps => CalendarKept
       /\ lastOp'.op \in CalendarOps => LayoutKept
       /\ (effects # <<>> /\ Head(effects) = "autoMark") => LayoutKept]_vars

\* After a drag, a swap and an auto-mark, a day has been set and saved.
C23_Witness ==
    /\ Idle
    /\ lastOp.op = "set"
    /\ st.layout # DEFAULT_LAYOUT
    /\ st.slots # DEFAULT_SLOTS
    /\ st.monthlyData[2].days[2].status = "accident"
    /\ st.monthlyData[2].days[1].status = "unset"
    /\ store.year[st.currentYear] = Text(JsonOfYear(st.monthlyData))
    /\ clock = 2

\* The step is the firing of the display-clock interval or a render or
\* effect it triggered.
TickTriggered == variant \in Variants /\ lastOp'.op = "tick"

\* C24: in every variant, neither a firing of the 1-second display-clock
\* interval nor any render or effect it triggers changes a day status (the
\* year data), the sizing, the slot mapping or a persisted record.
C24_TickChangesClockOnly ==
    [][TickTriggered =>
          /\ q'.monthlyData = q.monthlyData
          /\ st'.monthlyData = st.monthlyData
          /\ store' = store
          /\ variant = "main" =>
                /\ q'.layout = q.layout /\ st'.layout = st.layout
                /\ q'.slots = q.slots /\ st'.slots = st.slots]_vars

(***************************************************************************)
(* SpecTimers: each variant mounted on a fresh profile at 16:00 on the     *)
(* second of February; the intervals fire, src/b's year buttons are        *)
(* pressed, the component is unmounted and mounted again in the same page. *)
(***************************************************************************)
\* The intervals whose effects return a clearInterval cleanup.
TimerCleanups(v) == IF v = "main" THEN {"clock"} ELSE {"clock", "sweep"}

\* The component is unmounted: React runs the cleanup of every effect.
Unmount ==
    /\ variant \in Variants
    /\ mounted
    /\ Idle
    /\ mounted' = FALSE
    /\ timers' = [t \in DOMAIN timers |->
                     IF t \in TimerCleanups(variant) THEN Cleared(timers, t)[t] ELSE timers[t]]
    /\ lastOp' = [op |-> "unmount"]
    /\ UNCHANGED <<variant, harnessVars, clock, store, st, q, tags, ident, effects,
                   gestures, drag>>

\* The component is mounted again in the same page: the intervals of the
\* page live on.
Mount ==
    /\ variant \in Variants
    /\ ~mounted
    /\ Idle
    /\ mounted' = TRUE
    /\ st' = InitialState(variant, Now)
    /\ q' = InitialState(variant, Now)
    /\ tags' = NoTags
    /\ ident' = InitialIdent
    /\ effects' = MountEffects(variant)
    /\ lastOp' = [op |-> "mount"]
    /\ UNCHANGED <<variant, harnessVars, clock, store, gestures, timers, drag>>

InitTimers ==
    /\ variant \in Variants
    /\ NoHarness
    /\ clock = 2
    /\ store = EmptyStore
    /\ Constructed(variant)
    /\ lastOp = [op |-> "none"]

NextTimers ==
    \/ EffClock
    \/ EffLoadYear
    \/ EffSaveYear
    \/ EffLoadLayout
    \/ EffSaveLayout
    \/ EffSaveSlots
    \/ EffAutoMark
    \/ RenderMain
    \/ Tick
    \/ EffLoadA
    \/ EffSaveA
    \/ EffClockA
    \/ EffSweepA
    \/ EffStreakA
    \/ RenderA
    \/ TickA
    \/ SweepTimerA
    \/ EffClockB
    \/ EffLoadB
    \/ EffSaveB
    \/ EffSweepB
    \/ RenderB
    \/ TickB
    \/ SweepTimerB
    \/ \E d \in {-1, 1} : YearStepB(d)
    \/ \E day \in LiveDays : Clickable(day) /\ DayClickHandlerB(day - 1)
    \/ Unmount
    \/ Mount

SpecTimers == InitTimers /\ [][NextTimers]_vars

\* C25: in every variant at most one clock interval and at most one sweep
\* interval are live at any time (after a year change of src/b too), no
\* interval is live while the dashboard is unmounted, and no clock tick and
\* no sweep fires while it is unmounted.
C25_TimersFollowLifecycle ==
    /\ [](timers["clock"] <= 1 /\ timers["sweep"] <= 1)
    /\ [](~mounted => timers = NoTimers)
    /\ [][~mounted => lastOp'.op \notin {"tick", "sweep"}]_vars

\* src/b mounted, after a year change has re-run the sweep effect: one clock
\* interval and one sweep interval.
C25_Witness ==
    /\ variant = "b"
    /\ mounted
    /\ Idle
    /\ lastOp.op = "year"
    /\ st.currentYear = OtherYear
    /\ timers = [clock |-> 1, sweep |-> 1]
    /\ store.year[OtherYear] # Absent

\* The saturating result for the pair at index (0-based) of the snapshot
\* start moved by delta: <<first, second>>.
SaturatedPair(start, index, delta, min) ==
    LET first  == start[index + 1]
        second == start[index + 2]
        rest   == sum(start) - first - second
    IN  IF first + delta < min THEN <<min, 100 - rest - min>>
        ELSE IF second - delta < min THEN <<100 - rest - min, min>>
        ELSE <<first + delta, second - delta>>

\* The step handles a pointer move of the one active gesture.
OneGestureMoves == Idle /\ lastOp'.op = "move" /\ Len(gestures) = 1

\* The gesture's delta in the pointer move handled by the step.
MoveDelta == lastOp'.deltas[1]

\* C26: a resize move saturates: the pair of the moved splitter becomes
\* <<min, 100 - rest - min>> when the delta would take the first member
\* below min, <<100 - rest - min, min>> when it would take the second below
\* min, and <<first + delta, second - delta>> of the snapshot otherwise.
C26_MoveSaturates ==
    [][OneGestureMoves =>
          LET g == gestures[1]
              next == q'.layout[g.group]
          IN  <<next[g.index + 1], next[g.index + 2]>> =
                  SaturatedPair(g.start, g.index, MoveDelta, MinEach(g.group))]_vars

\* The same for a move whose snapshot was a valid group.
C26_ValidSnapshotSaturates ==
    [][(OneGestureMoves /\ ValidGroup(gestures[1].group, gestures[1].start)) =>
          LET g == gestures[1]
              next == q'.layout[g.group]
          IN  <<next[g.index + 1], next[g.index + 2]>> =
                  SaturatedPair(g.start, g.index, MoveDelta, MinEach(g.group))]_vars

OneGestureMoved == variant = "main" /\ lastOp.op = "move" /\ Len(gestures) = 1

InitGestures ==
    /\ variant = "main"
    /\ NoHarness
    /\ clock = 2
    /\ store = EmptyStore
    /\ Constructed("main")
    /\ lastOp = [op |-> "none"]

NextGestures ==
    \/ EffClock
    \/ EffLoadYear
    \/ EffSaveYear
    \/ EffLoadLayout
    \/ EffSaveLayout
    \/ EffSaveSlots
    \/ EffAutoMark
    \/ RenderMain
    \/ \E index \in SplitterIndexes("cols") : PointerDown("cols", index)
    \/ \E dx \in PointerDeltas : PointerMove(dx, 0)
    \/ PointerUp

SpecGestures == InitGestures /\ [][NextGestures]_vars

\* C29: at no time are two resize gestures active on the same group with
\* different snapshots (a pointer-down on a group whose gesture is still
\* active is not accepted).
C29_OneSnapshotPerGroup ==
    \A i \in DOMAIN gestures : \A j \in DOMAIN gestures :
        gestures[i].group = gestures[j].group => gestures[i].start = gestures[j].start

(***************************************************************************)
(* Harness for setDayStatus of src/src: a year (or its first eleven        *)
(* months) in which the day addressed holds any status and the other days  *)
(* of its month are all unset or all accident; the displayed month is      *)
(* February or December, the day is in range or not.                       *)
(***************************************************************************)
SetMonths == {1, 11}
SetDays == {0, 1, 29, 30, 32}

InitSet ==
    /\ variant = "main"
    /\ \E year \in ClickYears : \E m \in SetMonths : \E day \in SetDays :
       \E prior \in Statuses : \E fill \in {"unset", "accident"} : \E s \in Statuses :
       \E months \in {11, 12} :
           call = [fn |-> "setDayStatus", displayMonth |-> m, day |-> day, status |-> s,
                   prev |-> SubSeq(ClickInput("main", year, m, day - 1, prior, fill),
                                   1, months)]
    /\ ret = <<>>
    /\ DashIdle

CallSetDayStatus ==
    /\ call.fn = "setDayStatus"
    /\ ret' = SetDayStatusFn(call.prev, call.displayMonth, call.day, call.status)
    /\ call' = [call EXCEPT !.fn = "setDayStatusDone"]
    /\ UNCHANGED <<variant, dashVars>>

NextSet == CallSetDayStatus

SpecSet == InitSet /\ [][NextSet]_vars

\* The day addressed exists in the data.
SetInRange ==
    /\ call.displayMonth + 1 \in DOMAIN call.prev
    /\ call.day \in DOMAIN call.prev[call.displayMonth + 1].days

\* C30: setDayStatus(day, s) of src/src gives the day of the displayed month
\* the status s, whatever s and whatever status it had, and leaves every
\* other day, every other month and everything else of the data as it was;
\* the data is unchanged when the day or the month does not exist.  CLEAR
\* thus gives unset from every status in one step.
C30_SetDayStatusSetsOneDay ==
    call.fn = "setDayStatusDone" =>
        IF SetInRange
        THEN /\ ret[call.displayMonth + 1].days[call.day].status = call.status
             /\ ret[call.displayMonth + 1].days[call.day].day = call.day
             /\ DOMAIN ret = DOMAIN call.prev
             /\ \A m \in DOMAIN ret :
                   /\ DOMAIN ret[m].days = DOMAIN call.prev[m].days
                   /\ [ret[m] EXCEPT !.days = <<>>] = [call.prev[m] EXCEPT !.days = <<>>]
                   /\ \A d \in DOMAIN ret[m].days :
                         (m # call.displayMonth + 1 \/ d # call.day) =>
                             ret[m].days[d] = call.prev[m].days[d]
        ELSE ret = call.prev

\* CLEAR on the 29th of February, which held an accident among accidents.
C30_Witness ==
    /\ call.fn = "setDayStatusDone"
    /\ SetInRange
    /\ call.day = 29
    /\ call.status = "unset"
    /\ call.prev[2].days[29].status = "accident"
    /\ call.prev[2].days[28].status = "accident"
    /\ ret[2].days[29].status = "unset"

(***************************************************************************)
(* SpecAdvanceA: src/a mounted over the record it wrote earlier, in which  *)
(* the displayed month (February or December) holds any status on its 29th *)
(* and is otherwise empty or full.  The user clicks the 29th of the        *)
(* displayed month and picks months.                                       *)
(***************************************************************************)
AdvanceMonths == {1, 11}
AdvanceDay == Len(createYearDataA(Instants[1].year)[2].days) - 1

InitAdvanceA ==
    /\ variant = "a"
    /\ NoHarness
    /\ clock = 1
    /\ \E m \in AdvanceMonths : \E s \in StatusesOf("a") : \E fill \in {"unset", "safe"} :
           store = [EmptyStore EXCEPT
                      !.a = Text(JsonOfA(Now.year, m,
                                         ClickInput("a", Now.year, m, AdvanceDay, s, fill)))]
    /\ Constructed("a")
    /\ lastOp = [op |-> "none"]

NextAdvanceA ==
    \/ EffLoadA
    \/ EffSaveA
    \/ EffClockA
    \/ EffSweepA
    \/ EffStreakA
    \/ RenderA
    \/ DayClickHandlerA(AdvanceDay)
    \/ \E m \in AdvanceMonths : MonthSelectA(m)

SpecAdvanceA == InitAdvanceA /\ [][NextAdvanceA]_vars

\* A step of handleDayClick (a handler runs between commits).
ClickStepA == Idle /\ lastOp'.op = "click"

\* C31: a day click of src/a moves the displayed month on by one exactly
\* when the clicked (displayed) month had an unset day before the click and
\* has none after it and its index is below 11; every other click, one in
\* a month that was already fully set included, leaves the displayed month
\* as it was.
C31_AdvanceOnlyOnCompletion ==
    [][ClickStepA =>
          LET m == st.displayMonth
              completes == /\ ~AllSet(st.monthlyData[m + 1].days)
                           /\ AllSet(q'.monthlyData[m + 1].days)
                           /\ m < 11
          IN  q'.displayMonth = IF completes THEN m + 1 ELSE m]_vars

\* What the updater tests: the clicked month has no unset day after the
\* click and its index is below 11.
C31_AdvanceWhenFullAfterClick ==
    [][ClickStepA =>
          LET m == st.displayMonth
          IN  q'.displayMonth = IF AllSet(q'.monthlyData[m + 1].days) /\ m < 11
                                THEN m + 1 ELSE m]_vars

(***************************************************************************)
(* SpecGaps: the streak harness with lists that may hold unset days: the   *)
(* list ends on the second of February, today; every day outside the list  *)
(* is unset.                                                               *)
(***************************************************************************)
GapLists == [1..3 -> Statuses] \cup [1..4 -> Statuses]

InitGaps ==
    /\ variant \in Variants
    /\ \E list \in GapLists :
           call = [fn |-> "streak", list |-> list, today |-> Instants[1],
                   data |-> StreakInput(variant, Instants[1], list)]
    /\ ret = <<>>
    /\ DashIdle

NextGaps == CallStreak

SpecGaps == InitGaps /\ [][NextGaps]_vars

\* C32: the walk of src/src back from today stops at the first unset day:
\* with an unset day k places into the list the streak is at most the
\* number of days after it, and the streak is 0 when today is unset,
\* whatever the earlier days hold.
C32_MainStopsAtUnset ==
    (variant = "main" /\ call.fn = "streaked") =>
        /\ \A k \in DOMAIN call.list :
              call.list[k] = "unset" => ret <= Len(call.list) - k
        /\ call.list[Len(call.list)] = "unset" => ret = 0
        /\ ret = TrailingRun(call.list, {"safe"})

\* src/src on [safe, safe, unset, safe]: the two safe days before the unset
\* day do not count.
C32_Witness ==
    /\ variant = "main"
    /\ call.fn = "streaked"
    /\ call.list = <<"safe", "safe", "unset", "safe">>
    /\ ret = 1

\* list without its unset days.
Packed(list) == SelectSeq(list, LAMBDA s : s # "unset")

\* The streak variant v computes for list ending on the day asOf.
StreakOfList(v, asOf, list) ==
    LET data == StreakInput(v, asOf, list)
    IN  IF v = "a" THEN StreakA(data, asOf.month) ELSE safetyStreakB(data)

\* C33: src/a and src/b skip unset days: an unset day neither ends the scan
\* nor counts, so the streak is the streak of the list with its unset days
\* removed (in src/b the safe and near_miss days after the last accident,
\* in src/a the safe days after the last nearMiss or accident).
C33_UnsetDaysSkipped ==
    (variant \in {"a", "b"} /\ call.fn = "streaked") =>
        /\ ret = StreakOfList(variant, call.today, Packed(call.list))
        /\ ret = TrailingRun(Packed(call.list),
                             IF variant = "b" THEN {"safe", "near_miss"} ELSE {"safe"})

\* src/b on [safe, unset, near_miss, unset]: the streak is 2.
C33_Witness ==
    /\ variant = "b"
    /\ call.fn = "streaked"
    /\ call.list = <<"safe", "unset", "near_miss", "unset">>
    /\ ret = 2

(***************************************************************************)
(* The shape of the year data under the calendar operations (SpecCal).     *)
(***************************************************************************)

\* data has twelve months, month i with index i and the year of the first,
\* each with the calendar number of days, numbered from 1.
ShapeOfYear(data) ==
    /\ Len(data) = 12
    /\ \A i \in 1..12 :
          /\ data[i].month = i - 1
          /\ data[i].year = data[1].year
          /\ Len(data[i].days) = CalendarDays(data[1].year, i - 1)
          /\ \A j \in DOMAIN data[i].days : data[i].days[j].day = j

\* data with every day status taken out.
WithoutStatuses(data) ==
    [i \in DOMAIN data |->
        [data[i] EXCEPT !.days = [j \in DOMAIN @ |-> [@[j] EXCEPT !.status = "unset"]]]]

\* data with every day status and the completed flag of src/a taken out.
WithoutStatusesAndFlags(data) ==
    [i \in DOMAIN data |->
        LET m == WithoutStatuses(data)[i]
        IN  IF "completed" \in DOMAIN m THEN [m EXCEPT !.completed = FALSE] ELSE m]

\* A step of a day set, day click, sweep, tick or month navigation.
CalendarOpStep == lastOp'.op \in {"set", "click", "sweep", "tick", "month"}

\* C34 as stated: in every variant, from createYearData(Y) on, the year data
\* keeps twelve months, month i with index i and year Y, each days array of
\* calendar length numbered 1..N, and day sets, day clicks, sweeps and
\* month navigation change nothing but status fields.
C34_OperationsChangeStatusOnly ==
    /\ []ShapeOfYear(q.monthlyData)
    /\ [][CalendarOpStep =>
             WithoutStatuses(q'.monthlyData) = WithoutStatuses(q.monthlyData)]_vars

\* C34: in every variant, from createYearData(Y) on, the year data keeps
\* twelve months, month i with index i and year Y, each days array of
\* calendar length numbered 1..N; day sets, day clicks, sweeps and month
\* navigation change nothing but status fields and, in src/a, the completed
\* flag of a month.
C34_OperationsKeepShape ==
    /\ []ShapeOfYear(q.monthlyData)
    /\ [][CalendarOpStep =>
             WithoutStatusesAndFlags(q'.monthlyData)
                 = WithoutStatusesAndFlags(q.monthlyData)]_vars

\* src/b after a click and a sweep: the first of February is not unset, the
\* data has its shape.
C34_Witness ==
    /\ variant = "b"
    /\ Idle
    /\ lastOp.op = "click"
    /\ q.monthlyData[2].days[1].status = "accident"
    /\ q.monthlyData[2].days[2].status = "safe"
    /\ ShapeOfYear(q.monthlyData)

(***************************************************************************)
(* SpecMount: each variant mounted, at 15:00 or 16:00 on the second of     *)
(* February, over storage holding records that pass its load checks: a     *)
(* year record for the current year and, in src/src, a layout record (one  *)
(* the dashboard wrote, or one whose columns sum to 50) and a slot record. *)
(* lastOp keeps the storage as it was before the mount.  Only the effects  *)
(* and renders of the mount run.                                           *)
(***************************************************************************)
MountYears(v) ==
    LET fresh == CreateYearDataOf(v, Instants[1].year)
    IN  { [fresh EXCEPT ![2].days[1].status = "accident"],
          [fresh EXCEPT ![2].days[2].status = "safe", ![1].days[31].status = "safe"],
          [fresh EXCEPT ![1].days[1].status = "accident"] }

MountLayouts == {Text(JsonOfLayout(SavedLayout)), Text(HalfLayoutJson)}

InitMount ==
    /\ variant \in Variants
    /\ NoHarness
    /\ clock \in {1, 2}
    /\ \E d \in MountYears(variant) : \E m \in MonthButtons : \E l \in MountLayouts :
           store = CASE variant = "main" ->
                          [EmptyStore EXCEPT !.year[Now.year] = Text(JsonOfYear(d)),
                                             !.layout = l,
                                             !.slots = Text(JsonOfSlots(SavedSlots))]
                     [] variant = "a" ->
                          [EmptyStore EXCEPT !.a = Text(JsonOfA(Now.year, m, d))]
                     [] variant = "b" ->
                          [EmptyStore EXCEPT !.year[Now.year] = Text(JsonOfYear(d))]
    /\ Constructed(variant)
    /\ lastOp = [op |-> "stored", store |-> store]

NextMount ==
    \/ EffClock
    \/ EffLoadYear
    \/ EffSaveYear
    \/ EffLoadLayout
    \/ EffSaveLayout
    \/ EffSaveSlots
    \/ EffAutoMark
    \/ RenderMain
    \/ EffLoadA
    \/ EffSaveA
    \/ EffClockA
    \/ EffSweepA
    \/ EffStreakA
    \/ RenderA
    \/ EffClockB
    \/ EffLoadB
    \/ EffSaveB
    \/ EffSweepB
    \/ RenderB

SpecMount == InitMount /\ [][NextMount]_vars

\* The year record of the variant in storage s.
YearRecordIn(s) == IF variant = "a" THEN s.a ELSE s.year[Now.year]

\* The year data stored before the mount.
YearBeforeMount == Field(YearRecordIn(lastOp.store).json, "monthlyData").items

\* What the auto-fill of the variant makes of data at the instant of the mount.
AutoFilledAtMount(data) ==
    CASE variant = "main" ->
            IF Now.hours >= 16 THEN AutoMarkToday(data, Now.month, Now.date) ELSE data
      [] variant = "a" -> AutoFillA(data, Now)
      [] variant = "b" -> AutoFillB(data, Now)

\* The year record the variant writes for what is in memory.
YearRecordOfMemory ==
    Text(IF variant = "a" THEN JsonOfA(Now.year, q.displayMonth, q.monthlyData)
         ELSE JsonOfYear(q.monthlyData))

\* A load effect of the year record, or of the layout and slot records, is
\* still to run.
PendingEffect(names) == \E i \in DOMAIN effects : effects[i] \in names

\* No save writes a key before the load effect of the same mount has read it.
ReadBeforeWritten ==
    [][/\ YearRecordIn(store') # YearRecordIn(store)
            => ~PendingEffect({"loadYear", "loadA", "loadB"})
       /\ (store'.layout # store.layout \/ store'.slots # store.slots)
            => ~PendingEffect({"loadLayout"})]_vars

\* Once the mount has settled the year data and the slots are what was
\* stored, up to auto-fill, in memory and in storage.
YearAndSlotsRestored ==
    Idle =>
        /\ q.monthlyData = AutoFilledAtMount(YearBeforeMount)
        /\ YearRecordIn(store) = YearRecordOfMemory
        /\ variant = "a" => q.displayMonth = Field(lastOp.store.a.json, "displayMonth").n
        /\ variant = "main" =>
              /\ Text(JsonOfSlots(q.slots)) = lastOp.store.slots
              /\ store.slots = lastOp.store.slots

YearsIn(raw) ==
    LET data == Field(raw.json, "monthlyData")
    IN  IF raw.kind = "text" /\ data.type = "array"
        THEN {data.items[i].year : i \in DOMAIN data.items} ELSE {}

\* C36: in src/b, at every step, between the effects of a year switch too,
\* the record stored under the key of year Y holds monthlyData whose months
\* all have year Y.
C36_YearKeyHoldsItsYear ==
    variant = "b" => \A y \in YearKeys : YearsIn(store.year[y]) \subseteq {y}

\* C37: in src/a the year field of the persisted record equals the year
\* field of every month of the monthlyData stored with it, also when the
\* clock crosses into a new year while the dashboard stays mounted.
C37_RecordYearIsDataYear ==
    (variant = "a" /\ store.a.kind = "text") =>
        YearsIn(store.a) \subseteq {Field(store.a.json, "year").n}

\* C38: in src/a, from fresh year data on, after any clicks and sweeps the
\* completed flag of every month is true exactly when the month has no
\* unset day.
C38_CompletedIffNoUnsetDay ==
    variant = "a" =>
        \A i \in DOMAIN q.monthlyData :
            q.monthlyData[i].completed = AllSet(q.monthlyData[i].days)

\* February, filled by the sweep at 17:00 on the 29th, after a click that
\* unset its first day: it is not completed any more.
C38_Witness ==
    /\ variant = "a"
    /\ lastOp.op = "click"
    /\ q.monthlyData[2].days[29].status = "safe"
    /\ q.monthlyData[2].days[1].status = "unset"
    /\ ~q.monthlyData[2].completed

(***************************************************************************)
(* SpecRestoreA: src/a mounted over a record of the current year whose     *)
(* displayMonth is any integer and whose monthlyData is what the dashboard *)
(* writes or carries a month whose month field is 12 (the load effect      *)
(* takes any array).  The user presses the buttons of the first and the    *)
(* last month and clicks the first day of the displayed month.             *)
(***************************************************************************)
RestoredMonths == {-3, 0, 11, 15}
\* The month fields of the month buttons the user presses.
RestoredButtons == {0, 11, 12}

RestoredYears ==
    LET fresh == createYearDataA(Instants[1].year)
    IN  {fresh, [fresh EXCEPT ![12].month = 12]}

InitRestoreA ==
    /\ variant = "a"
    /\ NoHarness
    /\ clock = 1
    /\ \E m \in RestoredMonths : \E d \in RestoredYears :
           store = [EmptyStore EXCEPT !.a = Text(JsonOfA(Now.year, m, d))]
    /\ Constructed("a")
    /\ lastOp = [op |-> "none"]

NextRestoreA ==
    \/ EffLoadA
    \/ EffSaveA
    \/ EffClockA
    \/ EffSweepA
    \/ EffStreakA
    \/ RenderA
    \/ DayClickHandlerA(0)
    \/ \E m \in RestoredButtons : MonthSelectA(m)

SpecRestoreA == InitRestoreA /\ [][NextRestoreA]_vars

C39_RestoredMonthClamped ==
    [][(effects # <<>> /\ Head(effects) = "loadA") => q'.displayMonth \in 0..11]_vars

====
